---- MODULE Spec2Model ----
(***************************************************************************)
(* Odds ingestion of LineMovement: the sync routes of server/routes.ts     *)
(* (POST /api/odds/sync, /api/odds/sync-best, /api/espn/nfl/sync,          *)
(* /seed/sportsdata), the fallback route GET /api/odds/best, the ESPN      *)
(* transform of server/services/espnOdds.ts, the 429 retry of              *)
(* server/services/sportsDataIoApi.ts and the storage operations of        *)
(* server/storage.ts, over the tables of shared/schema.ts.                 *)
(*                                                                         *)
(* Every handler is one atomic action.  A provider's answer is an input of *)
(* the handler, drawn from a small set of event lists.  Strings the code   *)
(* inspects (team names, outcome names, book names) are sequences of       *)
(* characters, so toLowerCase and includes are computed, not assumed.      *)
(* An optional number (JS null / undefined) is <<>>, a present one <<n>>.  *)
(*                                                                         *)
(* The database is the deployment's.  shared/schema.ts declares no unique  *)
(* index on odds (game_id, bookmaker_id, market, outcome_type), the        *)
(* conflict target of upsertOdds, so a database pushed from the schema     *)
(* rejects the statement and one that was given the index accepts it:      *)
(* oddsKeyIndex says which.  Foreign keys are not modelled: the sports     *)
(* row a game refers to is taken to exist.                                 *)
(***************************************************************************)
EXTENDS Integers, Sequences, FiniteSets, TLC

VARIABLES
  games,          \* rows of table games
  bookmakers,     \* rows of table bookmakers
  odds,           \* rows of table odds
  lineMovements,  \* rows of table line_movements
  sports,         \* ids of the rows of table sports
  nextId,         \* next value of gen_random_uuid() (fresh row ids)
  oddsKeyIndex,   \* whether the database has a unique index on the odds key
  response,       \* the last HTTP response sent
  requests,       \* number of requests handled so far
  inFlight,       \* the sync cycles that have started and not yet answered
  lastSync,       \* history: the last sync request (route, input, events looped over)
  prev            \* history: the tables before the last sync request

vars == <<games, bookmakers, odds, lineMovements, sports, nextId, oddsKeyIndex,
          response, requests, inFlight, lastSync, prev>>

(***************************************************************************)
(* Bounds of the model.                                                    *)
(***************************************************************************)
MaxRequests == 2
MaxCycles == 2
MaxAnswers == 4
MaxPageItems == 2
MaxCursorPages == 2
MaxPagesCap == 3

(***************************************************************************)
(* JavaScript strings.                                                     *)
(***************************************************************************)
LowerChar(c) ==
  CASE c = "A" -> "a" [] c = "B" -> "b" [] c = "C" -> "c" [] c = "D" -> "d"
    [] c = "E" -> "e" [] c = "H" -> "h" [] c = "K" -> "k" [] c = "O" -> "o"
    [] c = "U" -> "u" [] OTHER -> c

toLowerCase(s) == [i \in 1..Len(s) |-> LowerChar(s[i])]

includes(s, sub) ==
  \E i \in 1..(Len(s) - Len(sub) + 1) : SubSeq(s, i, i + Len(sub) - 1) = sub

\* s.replace(/\s+/g, "_"): every maximal run of blanks becomes one underscore
RECURSIVE replaceBlanks(_)
replaceBlanks(s) ==
  IF s = <<>> THEN <<>>
  ELSE IF Head(s) = " "
       THEN IF Len(s) > 1 /\ s[2] = " "
            THEN replaceBlanks(Tail(s))
            ELSE <<"_">> \o replaceBlanks(Tail(s))
       ELSE <<Head(s)>> \o replaceBlanks(Tail(s))

\* a missing (undefined, null or empty) string is falsy
Truthy(s) == s # <<>>

HomeLit  == <<"h", "o", "m", "e">>
AwayLit  == <<"a", "w", "a", "y">>
OverLit  == <<"o", "v", "e", "r">>
UnderLit == <<"u", "n", "d", "e", "r">>
OverName  == <<"O", "v", "e", "r">>
UnderName == <<"U", "n", "d", "e", "r">>

(***************************************************************************)
(* JavaScript dates.  A provider time is "undefined", "null", an           *)
(* unparseable text or an ISO time; new Date(v) of it is a Date value.     *)
(***************************************************************************)
InvalidDate == "Invalid Date"
EpochDate   == "1970-01-01T00:00:00.000Z"
NowDate     == "now"
KickOff     == "2025-09-07T17:00:00Z"
LateKickOff == "2025-09-08T00:15:00Z"
ValidTimes  == {KickOff, LateKickOff}

NewDate(v) ==
  CASE v = "undefined" -> InvalidDate
    [] v = "null"      -> EpochDate
    [] v \in ValidTimes -> v
    [] OTHER           -> InvalidDate

TimeTruthy(v) == v \notin {"undefined", "null"}

isNaNTime(d) == d = InvalidDate

\* Date.prototype.getTime of a valid date, as its rank among the dates above
getTime(d) ==
  CASE d = EpochDate   -> 0
    [] d = KickOff     -> 1
    [] d = LateKickOff -> 2
    [] d = NowDate     -> 3

(***************************************************************************)
(* Numbers written to decimal columns: String(v) gives the text, the       *)
(* column parses it back or rejects it.                                    *)
(***************************************************************************)
\* a JavaScript number that is not finite, or a text where a number is
\* meant, is the pair <<0, its text>>
NaN      == <<0, "NaN">>
Infinity == <<0, "Infinity">>

JsString(v) ==
  IF v = <<>> THEN [kind |-> "undefined"]
  ELSE IF Len(v) = 2 THEN [kind |-> "text", val |-> v[2]]
  ELSE [kind |-> "num", val |-> v[1]]

NullText == [kind |-> "null"]

\* a numeric column takes a number, null and 'NaN'; numeric(p, s) has no
\* room for an infinity, and any other text is no number
DecimalOk(text) ==
  \/ text.kind \in {"num", "null"}
  \/ text.kind = "text" /\ text.val = "NaN"

DecimalColumn(text) ==
  CASE text.kind = "num"  -> <<text.val>>
    [] text.kind = "text" -> <<0, text.val>>
    [] OTHER              -> <<>>

(***************************************************************************)
(* Storage (server/storage.ts) over the tables of shared/schema.ts.  The   *)
(* state a handler works on is a record st: the tables, the handler's      *)
(* counters, the row whose write the database rejects (st.fail) and        *)
(* whether an exception is in flight (st.threw).                           *)
(***************************************************************************)
NoFail == <<"none">>

Throw(st) == [st EXCEPT !.threw = TRUE]

\* games: id primary key; home_team, away_team, commence_time NOT NULL
upsertGame(st, game) ==
  IF \/ st.fail = <<"games", game.id>>
     \/ ~Truthy(game.homeTeam)
     \/ ~Truthy(game.awayTeam)
     \/ isNaNTime(game.commenceTime)
  THEN Throw(st)
  ELSE [st EXCEPT !.games = {g \in @ : g.id # game.id} \cup {game}]

\* bookmakers: id primary key
upsertBookmaker(st, bookmaker) ==
  IF \/ st.fail = <<"bookmakers", bookmaker.id>>
     \/ isNaNTime(bookmaker.lastUpdate)
  THEN Throw(st)
  ELSE [st EXCEPT !.bookmakers =
          {b \in @ : b.id # bookmaker.id} \cup {[id |-> bookmaker.id, title |-> bookmaker.title]}]

OddsKey(r) == <<r.gameId, r.bookmakerId, r.market, r.outcomeType>>

\* a plain INSERT: the ON CONFLICT clause left out
upsertOddsAppend(st, oddsData) ==
  IF \/ st.fail = <<"odds", OddsKey(oddsData)>>
     \/ ~st.oddsKeyIndex
     \/ ~DecimalOk(oddsData.price)
     \/ ~DecimalOk(oddsData.point)
  THEN Throw(st)
  ELSE [st EXCEPT
          !.odds = @ \cup {[id |-> st.nextId,
                            gameId |-> oddsData.gameId,
                            bookmakerId |-> oddsData.bookmakerId,
                            market |-> oddsData.market,
                            outcomeType |-> oddsData.outcomeType,
                            price |-> DecimalColumn(oddsData.price),
                            point |-> DecimalColumn(oddsData.point)]},
          !.nextId = @ + 1]

\* INSERT ... ON CONFLICT (game_id, bookmaker_id, market, outcome_type)
\* DO UPDATE SET price, point: the conflicting row is rewritten in place;
\* without a unique index on the conflict target the statement is rejected
upsertOdds(st, oddsData) ==
  IF \/ st.fail = <<"odds", OddsKey(oddsData)>>
     \/ ~st.oddsKeyIndex
     \/ ~DecimalOk(oddsData.price)
     \/ ~DecimalOk(oddsData.point)
  THEN Throw(st)
  ELSE IF \E r \in st.odds : OddsKey(r) = OddsKey(oddsData)
       THEN [st EXCEPT !.odds =
               {IF OddsKey(r) = OddsKey(oddsData)
                THEN [r EXCEPT !.price = DecimalColumn(oddsData.price),
                               !.point = DecimalColumn(oddsData.point)]
                ELSE r : r \in @}]
       ELSE [st EXCEPT
               !.odds = @ \cup {[id |-> st.nextId,
                                 gameId |-> oddsData.gameId,
                                 bookmakerId |-> oddsData.bookmakerId,
                                 market |-> oddsData.market,
                                 outcomeType |-> oddsData.outcomeType,
                                 price |-> DecimalColumn(oddsData.price),
                                 point |-> DecimalColumn(oddsData.point)]},
               !.nextId = @ + 1]

\* INSERT INTO line_movements; no route calls it
createLineMovement(st, movement) ==
  [st EXCEPT !.lineMovements = @ \cup {[movement EXCEPT !.id = st.nextId]},
             !.nextId = @ + 1]

(***************************************************************************)
(* Outcome classification of each route.  "" is the code's empty           *)
(* outcomeType: the outcome is not written.                                *)
(***************************************************************************)
\* POST /api/odds/sync
ClassifySync(marketKey, name, ev) ==
  IF marketKey \in {"h2h", "spreads"}
  THEN LET n    == toLowerCase(name)
           home == toLowerCase(ev.home_team)
           away == toLowerCase(ev.away_team)
           isHome == \/ n = HomeLit
                     \/ includes(n, HomeLit)
                     \/ n = home
                     \/ (Truthy(home) /\ includes(n, home))
           isAway == \/ n = AwayLit
                     \/ includes(n, AwayLit)
                     \/ n = away
                     \/ (Truthy(away) /\ includes(n, away))
       IN IF isHome THEN "home" ELSE IF isAway THEN "away" ELSE ""
  ELSE IF marketKey = "totals"
       THEN LET n == toLowerCase(name)
            IN IF n = OverLit THEN "over" ELSE IF n = UnderLit THEN "under" ELSE ""
       ELSE ""

\* a classification that hands an unknown market's key on as the type
ClassifyBestRaw(marketKey, name, ev) ==
  IF marketKey \in {"h2h", "spreads"}
  THEN (IF name = ev.home_team THEN "home" ELSE "away")
  ELSE IF marketKey = "totals"
       THEN (IF toLowerCase(name) = OverLit THEN "over" ELSE "under")
       ELSE marketKey

\* POST /api/odds/sync-best
ClassifyBest(marketKey, name, ev) ==
  IF marketKey = "h2h" THEN (IF name = ev.home_team THEN "home" ELSE "away")
  ELSE IF marketKey = "spreads" THEN (IF name = ev.home_team THEN "home" ELSE "away")
  ELSE IF marketKey = "totals"
       THEN (IF toLowerCase(name) = OverLit THEN "over" ELSE "under")
       ELSE ""

\* POST /api/espn/nfl/sync
ClassifyEspn(marketKey, name, ev) ==
  IF marketKey = "h2h" THEN (IF name = ev.home_team THEN "home" ELSE "away")
  ELSE IF marketKey = "spreads" THEN (IF name = ev.home_team THEN "home" ELSE "away")
  ELSE IF marketKey = "totals"
       THEN (IF name = OverName THEN "over" ELSE "under")
       ELSE ""

\* POST /seed/sportsdata
ClassifySeed(marketKey, name, ev) ==
  IF marketKey \in {"h2h", "spreads"}
  THEN (IF name = ev.home_team THEN "home" ELSE "away")
  ELSE IF marketKey = "totals"
       THEN (IF toLowerCase(name) = OverLit THEN "over" ELSE "under")
       ELSE ""

Classify(route, marketKey, name, ev) ==
  CASE route = "sync"     -> ClassifySync(marketKey, name, ev)
    [] route = "syncBest" -> ClassifyBest(marketKey, name, ev)
    [] route = "espnSync" -> ClassifyEspn(marketKey, name, ev)
    [] route = "seed"     -> ClassifySeed(marketKey, name, ev)

\* point: outcome.point != null ? String(outcome.point) : null
PointNotNull(point) == IF point # <<>> THEN JsString(point) ELSE NullText

\* point: outcome.point ? String(outcome.point) : null   (0 is falsy)
PointTruthy(point) ==
  IF point # <<>> /\ point[1] # 0 THEN JsString(point) ELSE NullText

PointArg(route, point) ==
  IF route \in {"sync", "seed"} THEN PointNotNull(point) ELSE PointTruthy(point)

(***************************************************************************)
(* The sync loops: events, bookmakers, markets, outcomes.  An exception    *)
(* in flight (st.threw) ends every loop up to the enclosing catch.         *)
(***************************************************************************)
\* the value of body(x), with x evaluated once
Bind(x, body(_)) == CHOOSE r \in {body(v) : v \in {x}} : TRUE

\* one outcome: classify it, write the odds row unless the type is empty
SyncOutcome(route, st, ev, bm, mk, o) ==
  LET outcomeType == Classify(route, mk.key, o.name, ev)
      w == upsertOdds(st, [gameId      |-> ev.id,
                           bookmakerId |-> bm.key,
                           market      |-> mk.key,
                           outcomeType |-> outcomeType,
                           price       |-> JsString(o.price),
                           point       |-> PointArg(route, o.point)])
  IN IF outcomeType = "" THEN st
     ELSE IF w.threw THEN w
     ELSE [w EXCEPT !.oddsUpdated = @ + 1]

RECURSIVE SyncOutcomes(_, _, _, _, _, _)
SyncOutcomes(route, st, ev, bm, mk, os) ==
  IF os = <<>> \/ st.threw THEN st
  ELSE Bind(SyncOutcome(route, st, ev, bm, mk, Head(os)),
            LAMBDA s1 : SyncOutcomes(route, s1, ev, bm, mk, Tail(os)))

RECURSIVE SyncMarkets(_, _, _, _, _)
SyncMarkets(route, st, ev, bm, mks) ==
  IF mks = <<>> \/ st.threw THEN st
  ELSE Bind(SyncOutcomes(route, st, ev, bm, Head(mks), Head(mks).outcomes),
            LAMBDA s1 : SyncMarkets(route, s1, ev, bm, Tail(mks)))

\* the Date written to bookmakers.last_update
BookLastUpdate(route, bm) ==
  CASE route \in {"sync", "seed"} ->
         IF TimeTruthy(bm.last_update) THEN NewDate(bm.last_update) ELSE NowDate
    [] route = "syncBest" ->
         IF TimeTruthy(bm.last_update) THEN NewDate(bm.last_update) ELSE NowDate
    [] route = "espnSync" -> NewDate(bm.last_update)

\* one bookmaker: write its row, then its markets
SyncBookmaker(route, st, ev, bm) ==
  LET lastUpdate == BookLastUpdate(route, bm)
      w == upsertBookmaker(st, [id |-> bm.key, title |-> bm.title,
                                lastUpdate |-> lastUpdate])
      counted == IF route = "sync" THEN w
                 ELSE [w EXCEPT !.booksUpdated = @ + 1]
  IN IF route \in {"sync", "seed"} /\ isNaNTime(lastUpdate) THEN st
     ELSE IF w.threw THEN w
     ELSE Bind(counted, LAMBDA s1 : SyncMarkets(route, s1, ev, bm, bm.markets))

RECURSIVE SyncBookmakers(_, _, _, _)
SyncBookmakers(route, st, ev, bms) ==
  IF bms = <<>> \/ st.threw THEN st
  ELSE Bind(SyncBookmaker(route, st, ev, Head(bms)),
            LAMBDA s1 : SyncBookmakers(route, s1, ev, Tail(bms)))

\* the Date written to games.commence_time
CommenceTime(route, ev) ==
  IF route = "seed"
  THEN (IF TimeTruthy(ev.commence_time) THEN NewDate(ev.commence_time) ELSE NowDate)
  ELSE NewDate(ev.commence_time)

\* what the guard at the head of the event loop does with the event
EventGuard(route, ev) ==
  CASE route = "sync" ->
         IF ~Truthy(ev.home_team) \/ ~Truthy(ev.away_team) \/ ~TimeTruthy(ev.commence_time)
         THEN "skipCounted"
         ELSE IF isNaNTime(NewDate(ev.commence_time)) THEN "skipCounted" ELSE "process"
    [] route \in {"syncBest", "espnSync"} ->
         IF ~Truthy(ev.home_team) \/ ~Truthy(ev.away_team) THEN "skip" ELSE "process"
    [] route = "seed" ->
         IF isNaNTime(CommenceTime(route, ev)) THEN "skip" ELSE "process"

\* the body of the event loop after the guard: game, then bookmakers
SyncEvent(route, st, ev) ==
  LET w == upsertGame(st, [id           |-> ev.id,
                           homeTeam     |-> ev.home_team,
                           awayTeam     |-> ev.away_team,
                           commenceTime |-> CommenceTime(route, ev)])
  IN IF w.threw THEN w
     ELSE Bind([w EXCEPT !.gamesUpdated = @ + 1],
               LAMBDA s1 : SyncBookmakers(route, s1, ev, ev.bookmakers))

\* an event loop whose guard skips without counting
EventTurnSilent(route, st, ev) ==
  IF EventGuard(route, ev) = "process"
  THEN (IF route = "syncBest" THEN [SyncEvent(route, st, ev) EXCEPT !.threw = FALSE]
        ELSE SyncEvent(route, st, ev))
  ELSE st

\* one turn of the event loop; sync-best wraps the body in try/catch
EventTurn(route, st, ev) ==
  LET g == EventGuard(route, ev)
  IN CASE g = "skipCounted" -> [st EXCEPT !.gamesSkipped = @ + 1]
       [] g = "skip"        -> st
       [] g = "process" /\ route = "syncBest" ->
            [SyncEvent(route, st, ev) EXCEPT !.threw = FALSE]
       [] g = "process" /\ route # "syncBest" -> SyncEvent(route, st, ev)

RECURSIVE SyncEvents(_, _, _)
SyncEvents(route, st, evs) ==
  IF evs = <<>> \/ st.threw THEN st
  ELSE Bind(EventTurn(route, st, Head(evs)),
            LAMBDA s1 : SyncEvents(route, s1, Tail(evs)))

\* data.slice(0, limit)
Slice(seq, limit) == SubSeq(seq, 1, IF limit < Len(seq) THEN limit ELSE Len(seq))

(***************************************************************************)
(* SportsDataIO adapter (server/services/sportsDataIoApi.ts).  An upstream *)
(* endpoint is the sequence of its answers to successive requests; it      *)
(* repeats the last one.  The body of a 200 answer is the event list the   *)
(* adapter's transform makes of the payload.                               *)
(***************************************************************************)
AnswerAt(answers, attempt) ==
  answers[IF attempt < Len(answers) THEN attempt ELSE Len(answers)]

HttpOk(status) == status >= 200 /\ status <= 299

\* a retry that allows one more attempt
RECURSIVE fetchWithRetryFour(_, _)
fetchWithRetryFour(answers, attempt) ==
  LET resp == AnswerAt(answers, attempt)
  IN IF resp.status = 429 /\ attempt <= 3
     THEN fetchWithRetryFour(answers, attempt + 1)
     ELSE IF ~HttpOk(resp.status)
          THEN [threw |-> TRUE, status |-> resp.status, json |-> <<>>, sent |-> attempt]
          ELSE [threw |-> FALSE, status |-> resp.status, json |-> resp.body, sent |-> attempt]

RECURSIVE fetchWithRetry(_, _)
fetchWithRetry(answers, attempt) ==
  LET resp == AnswerAt(answers, attempt)
  IN IF resp.status = 429 /\ attempt <= 2
     THEN fetchWithRetry(answers, attempt + 1)
     ELSE IF ~HttpOk(resp.status)
          THEN [threw |-> TRUE, status |-> resp.status, json |-> <<>>, sent |-> attempt]
          ELSE [threw |-> FALSE, status |-> resp.status, json |-> resp.body, sent |-> attempt]

SupportedSports == {"NFL", "NBA", "MLB", "NHL", "NCAAF", "NCAAB", "MLS", "WNBA"}

getSportEndpoint(sport) == sport \in SupportedSports

\* transformGames: schedule rows carry no bookmakers
transformGames(gs) == [i \in 1..Len(gs) |-> [gs[i] EXCEPT !.bookmakers = <<>>]]

getGames(sport, upstream) ==
  LET r == fetchWithRetry(upstream.games, 1)
  IN IF r.threw THEN <<>> ELSE transformGames(r.json)

\* getOdds: the odds endpoint, else the schedule without bookmakers, else []
getOdds(sport, limit, upstream) ==
  IF ~getSportEndpoint(sport) THEN [threw |-> TRUE, events |-> <<>>]
  ELSE LET r == fetchWithRetry(upstream.odds, 1)
       IN IF ~r.threw
          THEN [threw |-> FALSE, events |-> Slice(r.json, limit)]
          ELSE [threw |-> FALSE, events |-> Slice(getGames(sport, upstream), limit)]

(***************************************************************************)
(* transformOddsData over the SportsDataIO payload.  A payload field is    *)
(* left out, null, a number or a text that is no number.  American odds    *)
(* are whole numbers; the prices the transform makes are decimal odds,     *)
(* counted here in hundredths as a numeric(10, 2) column rounds them.      *)
(***************************************************************************)
Undef  == [k |-> "undefined"]
Null   == [k |-> "null"]
Num(n) == [k |-> "num", v |-> n]
Text   == [k |-> "text"]

\* if (x)
RawTruthy(x) == x.k = "text" \/ (x.k = "num" /\ x.v # 0)
\* x != null
RawNotNull(x) == x.k \in {"num", "text"}

\* americanOdds > 0 ? americanOdds / 100 + 1 : 100 / Math.abs(americanOdds) + 1
convertAmericanToDecimal(americanOdds) ==
  IF americanOdds.k # "num" THEN NaN
  ELSE IF americanOdds.v > 0 THEN <<americanOdds.v + 100>>
  ELSE IF americanOdds.v = 0 THEN Infinity
  ELSE <<((20000 \div (0 - americanOdds.v)) + 1) \div 2 + 100>>

\* Math.abs(odd.PointSpread || 0), negated for the home side
SpreadPoint(pointSpread, sign) ==
  IF pointSpread.k = "text" THEN NaN
  ELSE IF pointSpread.k # "num" THEN <<0>>
  ELSE <<sign * (IF pointSpread.v < 0 THEN 0 - pointSpread.v ELSE pointSpread.v)>>

\* point: odd.OverUnder
TotalPoint(overUnder) ==
  IF overUnder.k = "text" THEN <<0, "abc">> ELSE <<overUnder.v>>

RawOutcome(name, price, point) == [name |-> name, price |-> price, point |-> point]

\* the markets one PregameOdds entry adds to its bookmaker
RawMarkets(game, odd) ==
  LET homeName == IF Truthy(game.HomeTeam) THEN game.HomeTeam ELSE <<"H", "o", "m", "e">>
      awayName == IF Truthy(game.AwayTeam) THEN game.AwayTeam ELSE <<"A", "w", "a", "y">>
      h2h ==
        (IF RawTruthy(odd.HomeMoneyLine)
         THEN <<RawOutcome(homeName, convertAmericanToDecimal(odd.HomeMoneyLine), <<>>)>>
         ELSE <<>>)
        \o (IF RawTruthy(odd.AwayMoneyLine)
            THEN <<RawOutcome(awayName, convertAmericanToDecimal(odd.AwayMoneyLine), <<>>)>>
            ELSE <<>>)
      spreads ==
        (IF RawNotNull(odd.HomePointSpreadPayout) /\ RawNotNull(odd.PointSpread)
         THEN <<RawOutcome(homeName, convertAmericanToDecimal(odd.HomePointSpreadPayout),
                           SpreadPoint(odd.PointSpread, -1))>>
         ELSE <<>>)
        \o (IF RawNotNull(odd.AwayPointSpreadPayout) /\ RawNotNull(odd.PointSpread)
            THEN <<RawOutcome(awayName, convertAmericanToDecimal(odd.AwayPointSpreadPayout),
                              SpreadPoint(odd.PointSpread, 1))>>
            ELSE <<>>)
      totals ==
        (IF RawNotNull(odd.OverPayout) /\ RawNotNull(odd.OverUnder)
         THEN <<RawOutcome(OverName, convertAmericanToDecimal(odd.OverPayout),
                           TotalPoint(odd.OverUnder))>>
         ELSE <<>>)
        \o (IF RawNotNull(odd.UnderPayout) /\ RawNotNull(odd.OverUnder)
            THEN <<RawOutcome(UnderName, convertAmericanToDecimal(odd.UnderPayout),
                              TotalPoint(odd.OverUnder))>>
            ELSE <<>>)
  IN (IF h2h # <<>> THEN <<[key |-> "h2h", outcomes |-> h2h]>> ELSE <<>>)
     \o (IF spreads # <<>> THEN <<[key |-> "spreads", outcomes |-> spreads]>> ELSE <<>>)
     \o (IF totals # <<>> THEN <<[key |-> "totals", outcomes |-> totals]>> ELSE <<>>)

\* game.PregameOdds.forEach over bookMap: an entry joins the bookmaker of
\* its Sportsbook, or opens one
RECURSIVE RawBookmakers(_, _, _)
RawBookmakers(game, pregameOdds, books) ==
  IF pregameOdds = <<>> THEN books
  ELSE LET odd  == Head(pregameOdds)
           key  == IF Truthy(odd.Sportsbook) THEN odd.Sportsbook
                   ELSE <<"u", "n", "k", "n", "o", "w", "n">>
           at   == {i \in 1..Len(books) : books[i].key = key}
           next == IF at = {}
                   THEN Append(books, [key |-> key, title |-> key, last_update |-> KickOff,
                                       markets |-> RawMarkets(game, odd)])
                   ELSE [i \in 1..Len(books) |->
                           IF i \in at
                           THEN [books[i] EXCEPT !.markets = @ \o RawMarkets(game, odd)]
                           ELSE books[i]]
       IN RawBookmakers(game, Tail(pregameOdds), next)

transformOddsData(oddsData) ==
  [i \in 1..Len(oddsData) |->
     [id            |-> oddsData[i].GameID,
      home_team     |-> IF Truthy(oddsData[i].HomeTeam) THEN oddsData[i].HomeTeam
                        ELSE <<"H", "o", "m", "e", " ", "T", "e", "a", "m">>,
      away_team     |-> IF Truthy(oddsData[i].AwayTeam) THEN oddsData[i].AwayTeam
                        ELSE <<"A", "w", "a", "y", " ", "T", "e", "a", "m">>,
      commence_time |-> oddsData[i].DateTime,
      bookmakers    |-> RawBookmakers(oddsData[i], oddsData[i].PregameOdds, <<>>)]]

(***************************************************************************)
(* SportsGameOdds adapter (server/services/oddsApi.ts, in two versions).   *)
(* The events endpoint is the sequence of its pages; a page holds a number *)
(* of events and says whether a nextCursor comes with it.  The last page   *)
(* repeats, so a last page with a cursor is a listing that never ends.     *)
(***************************************************************************)
RECURSIVE fetchJsonWith429Retry(_, _)
fetchJsonWith429Retry(answers, attempt) ==
  LET res == AnswerAt(answers, attempt)
  IN IF res.status = 429 /\ attempt <= 2
     THEN fetchJsonWith429Retry(answers, attempt + 1)
     ELSE IF ~HttpOk(res.status)
          THEN [threw |-> TRUE, status |-> res.status, json |-> <<>>, sent |-> attempt]
          ELSE [threw |-> FALSE, status |-> res.status, json |-> res.body, sent |-> attempt]

\* the events of page number page, each named by page and position
pageData(pages, page) ==
  [k \in 1..AnswerAt(pages, page).items |-> <<page, k>>]

\* getOdds with the for loop and the hard cap: one turn of the loop from page on
RECURSIVE sgoGetOddsFrom(_, _, _, _, _)
sgoGetOddsFrom(pages, limit, maxPages, page, sofar) ==
  IF page > maxPages THEN [results |-> sofar, sent |-> page - 1]
  ELSE Bind(sofar \o pageData(pages, page), LAMBDA all :
       IF ~AnswerAt(pages, page).next THEN [results |-> all, sent |-> page]
       ELSE IF Len(all) >= limit * maxPages THEN [results |-> all, sent |-> page]
       ELSE sgoGetOddsFrom(pages, limit, maxPages, page + 1, all))

sgoGetOdds(pages, limit, maxPages) == sgoGetOddsFrom(pages, limit, maxPages, 1, <<>>)

\* getOdds with the do-while loop: page counts the requests already made
RECURSIVE sgoGetOddsDoWhileFrom(_, _, _, _, _)
sgoGetOddsDoWhileFrom(pages, limitPerPage, maxPages, page, all) ==
  Bind(all \o pageData(pages, page + 1), LAMBDA batch :
    IF AnswerAt(pages, page + 1).next /\ page + 1 < maxPages
    THEN sgoGetOddsDoWhileFrom(pages, limitPerPage, maxPages, page + 1, batch)
    ELSE [results |-> batch, sent |-> page + 1])

sgoGetOddsDoWhile(pages, limitPerPage, maxPages) ==
  sgoGetOddsDoWhileFrom(pages, limitPerPage, maxPages, 0, <<>>)

(***************************************************************************)
(* ESPN adapter output and its transform (server/services/espnOdds.ts).    *)
(***************************************************************************)
RECURSIVE BooksOf(_, _)
BooksOf(quotes, seen) ==
  IF quotes = <<>> THEN <<>>
  ELSE IF Head(quotes).book \in seen THEN BooksOf(Tail(quotes), seen)
  ELSE <<Head(quotes).book>> \o BooksOf(Tail(quotes), seen \cup {Head(quotes).book})

EspnOutcome(q, marketKey, data) ==
  [name  |-> IF marketKey = "totals"
             THEN (IF q.team = "home" THEN OverName ELSE UnderName)
             ELSE (IF q.team = "home" THEN data.homeTeam ELSE data.awayTeam),
   price |-> IF q.price = <<>> \/ q.price = <<0>> THEN <<0>> ELSE q.price,
   point |-> IF q.point = <<>> \/ q.point = <<0>> THEN <<>> ELSE q.point]

RECURSIVE EspnMarkets(_, _, _)
EspnMarkets(bookQuotes, data, marketKeys) ==
  IF marketKeys = <<>> THEN <<>>
  ELSE LET marketKey == Head(marketKeys)
           marketQuotes == SelectSeq(bookQuotes, LAMBDA q : q.market = marketKey)
           rest == EspnMarkets(bookQuotes, data, Tail(marketKeys))
       IN IF marketQuotes = <<>> THEN rest
          ELSE <<[key |-> IF marketKey = "moneyline" THEN "h2h" ELSE marketKey,
                  outcomes |-> [i \in 1..Len(marketQuotes) |->
                                  EspnOutcome(marketQuotes[i], marketKey, data)]]>> \o rest

EspnBookmaker(bookName, data) ==
  LET bookQuotes == SelectSeq(data.quotes, LAMBDA q : q.book = bookName)
  IN [key         |-> replaceBlanks(toLowerCase(bookName)),
      title       |-> bookName,
      last_update |-> bookQuotes[1].updated,
      markets     |-> EspnMarkets(bookQuotes, data, <<"moneyline", "spreads", "totals">>)]

EspnEvent(data) ==
  LET books == BooksOf(data.quotes, {})
      bms   == [i \in 1..Len(books) |-> EspnBookmaker(books[i], data)]
  IN [id            |-> <<"espn_">> \o data.eventId,
      home_team     |-> data.homeTeam,
      away_team     |-> data.awayTeam,
      commence_time |-> data.commenceTime,
      bookmakers    |-> SelectSeq(bms, LAMBDA b : Len(b.markets) > 0)]

transformEspnToDbFormat(espnOdds) ==
  [i \in 1..Len(espnOdds) |-> EspnEvent(espnOdds[i])]

\* oddsApi.ts transformOddsToBookmakers: one bookmaker per key, one market per
\* node that has outcomes; a node is [bookmaker, betType, outcomes, name, price]
NodeOutcomes(node) ==
  IF node.outcomes.isArray
  THEN SelectSeq(node.outcomes.list, LAMBDA o : o.name # <<>> /\ o.price # <<>>)
  ELSE IF node.price # <<>> /\ node.name # <<>>
       THEN <<[name |-> node.name, price |-> node.price, point |-> <<>>]>>
       ELSE <<>>

NodeMarkets(node) ==
  IF NodeOutcomes(node) = <<>> THEN <<>>
  ELSE <<[key |-> IF node.betType = "" THEN "h2h" ELSE node.betType,
          outcomes |-> NodeOutcomes(node)]>>

NodeBook(node) == IF Truthy(node.bookmaker) THEN node.bookmaker
                  ELSE <<"u", "n", "k", "n", "o", "w", "n">>

RECURSIVE transformOddsToBookmakers(_, _)
transformOddsToBookmakers(nodes, books) ==
  IF nodes = <<>> THEN books
  ELSE LET node == Head(nodes)
           key  == NodeBook(node)
       IN transformOddsToBookmakers(Tail(nodes),
            IF \E i \in DOMAIN books : books[i].key = key
            THEN [i \in DOMAIN books |->
                    IF books[i].key = key
                    THEN [books[i] EXCEPT !.markets = @ \o NodeMarkets(node)]
                    ELSE books[i]]
            ELSE Append(books, [key |-> key, markets |-> NodeMarkets(node)]))

(***************************************************************************)
(* ESPN requests (server/services/espnOdds.ts).  An upstream answer is     *)
(* [outcome, json]: outcome "ok", or a network error, a status outside     *)
(* 2xx, an unparsable body.  An object that may be a link is [ref, resp,   *)
(* data]: ref says it carries an http $ref/href, resp is the answer to a   *)
(* request for it, data are the fields the object itself holds.            *)
(***************************************************************************)
\* getJson: the parsed body, or null
getJson(resp) == IF resp.outcome = "ok" THEN <<resp.json>> ELSE <<>>

\* expandOne: one request for the link, else the object as it is
expandOne(obj) ==
  IF obj.ref
  THEN LET expanded == getJson(obj.resp)
       IN [obj |-> IF expanded # <<>> THEN expanded[1] ELSE obj, sent |-> 1]
  ELSE [obj |-> obj, sent |-> 0]

\* toNum: a finite number, else null
toNum(v) == IF Len(v) = 1 THEN v ELSE <<>>

\* v || undefined: the first truthy of the alternatives, none being set but v
OrUndefined(v) == IF v = <<0>> THEN <<>> ELSE v

\* v || -110
OrMinus110(v) == IF v = <<>> \/ v = <<0>> THEN <<-110>> ELSE v

resolveCompetitionId(ev) ==
  LET e == getJson(ev.lookup)
  IN IF e # <<>> /\ e[1].compId # <<>> THEN [compId |-> e[1].compId, sent |-> 1]
     ELSE IF e # <<>> /\ e[1].compRef
          THEN LET x == getJson(e[1].comp)
               IN [compId |-> IF x # <<>> /\ x[1] # <<>> THEN x[1] ELSE <<"c", "9">>,
                   sent |-> 2]
          ELSE [compId |-> ev.id, sent |-> 1]

EspnQuote(book, market, team, price, point, updated) ==
  [book |-> book, market |-> market, team |-> team, price |-> price, point |-> point,
   updated |-> updated]

marketOf(marketType) ==
  IF includes(marketType, <<"m", "o", "n", "e", "y", "l", "i", "n", "e">>)
       \/ marketType = <<"m", "l">>
  THEN "moneyline"
  ELSE IF includes(marketType, <<"s", "p", "r", "e", "a", "d">>)
            \/ includes(marketType, <<"p", "o", "i", "n", "t">>)
       THEN "spreads"
       ELSE IF includes(marketType, <<"t", "o", "t", "a", "l">>)
                 \/ includes(marketType, OverLit)
            THEN "totals"
            ELSE ""

teamOf(market, o, homeTeam, awayTeam) ==
  LET name == toLowerCase(o.name)
  IN IF market = "totals"
     THEN (IF includes(name, OverLit) THEN "home"
           ELSE IF includes(name, <<"u", "n", "d", "e", "r">>) THEN "away" ELSE "")
     ELSE (IF o.homeAway = "home" THEN "home"
           ELSE IF o.homeAway = "away" THEN "away"
           ELSE IF includes(name, HomeLit) THEN "home"
           ELSE IF includes(name, AwayLit) THEN "away"
           ELSE IF name = toLowerCase(homeTeam) THEN "home"
           ELSE IF name = toLowerCase(awayTeam) THEN "away" ELSE "")

\* the outcomes of one market of the markets array
RECURSIVE OutcomeQuotes(_, _, _, _, _, _)
OutcomeQuotes(outcomes, market, book, updated, homeTeam, awayTeam) ==
  IF outcomes = <<>> THEN [quotes |-> <<>>, sent |-> 0]
  ELSE Bind(expandOne(Head(outcomes)), LAMBDA x :
       Bind(OutcomeQuotes(Tail(outcomes), market, book, updated, homeTeam, awayTeam),
            LAMBDA rest :
         LET o     == x.obj.data
             team  == teamOf(market, o, homeTeam, awayTeam)
             price == toNum(OrUndefined(o.price))
             point == IF market = "moneyline" THEN <<>> ELSE toNum(OrUndefined(o.point))
         IN [quotes |-> (IF team # "" /\ price # <<>>
                         THEN <<EspnQuote(book, market, team, price, point, updated)>>
                         ELSE <<>>) \o rest.quotes,
             sent |-> x.sent + rest.sent]))

RECURSIVE MarketQuotes(_, _, _, _, _)
MarketQuotes(markets, book, updated, homeTeam, awayTeam) ==
  IF markets = <<>> THEN [quotes |-> <<>>, sent |-> 0]
  ELSE Bind(expandOne(Head(markets)), LAMBDA x :
       Bind(MarketQuotes(Tail(markets), book, updated, homeTeam, awayTeam), LAMBDA rest :
         LET market == marketOf(toLowerCase(x.obj.data.type))
         IN IF market = ""
            THEN [quotes |-> rest.quotes, sent |-> x.sent + rest.sent]
            ELSE Bind(OutcomeQuotes(x.obj.data.outcomes, market, book, updated,
                                    homeTeam, awayTeam), LAMBDA mine :
                   [quotes |-> mine.quotes \o rest.quotes,
                    sent |-> x.sent + mine.sent + rest.sent])))

\* the fields a provider object holds itself: moneyline, spread, total
DirectQuotes(prov, book, updated) ==
  (IF prov.moneyline.home # <<>>
   THEN <<EspnQuote(book, "moneyline", "home", toNum(prov.moneyline.home), <<>>, updated)>>
   ELSE <<>>)
  \o (IF prov.moneyline.away # <<>>
      THEN <<EspnQuote(book, "moneyline", "away", toNum(prov.moneyline.away), <<>>, updated)>>
      ELSE <<>>)
  \o (IF prov.spread.home # <<>>
      THEN <<EspnQuote(book, "spreads", "home", toNum(OrMinus110(prov.spread.homeOdds)),
                       toNum(prov.spread.home), updated)>>
      ELSE <<>>)
  \o (IF prov.spread.away # <<>>
      THEN <<EspnQuote(book, "spreads", "away", toNum(OrMinus110(prov.spread.awayOdds)),
                       toNum(prov.spread.away), updated)>>
      ELSE <<>>)
  \o (IF prov.total # <<>> /\ prov.total # <<0>> /\ toNum(prov.total) # <<>>
      THEN <<EspnQuote(book, "totals", "home", <<-110>>, toNum(prov.total), updated),
             EspnQuote(book, "totals", "away", <<-110>>, toNum(prov.total), updated)>>
      ELSE <<>>)

RECURSIVE ItemQuotes(_, _, _)
ItemQuotes(items, homeTeam, awayTeam) ==
  IF items = <<>> THEN [quotes |-> <<>>, sent |-> 0]
  ELSE Bind(expandOne(Head(items)), LAMBDA x :
       Bind(ItemQuotes(Tail(items), homeTeam, awayTeam), LAMBDA rest :
         LET prov    == x.obj.data
             book    == IF Truthy(prov.name) THEN prov.name
                        ELSE <<"U", "n", "k", "n", "o", "w", "n">>
         IN Bind(MarketQuotes(prov.markets, book, prov.updated, homeTeam, awayTeam),
                 LAMBDA mk :
              [quotes |-> DirectQuotes(prov, book, prov.updated) \o mk.quotes
                            \o rest.quotes,
               sent |-> x.sent + mk.sent + rest.sent])))

\* out[eventId] = ...: a later event of the same id replaces the earlier one
PutEvent(out, game) ==
  IF \E i \in DOMAIN out : out[i].eventId = game.eventId
  THEN [i \in DOMAIN out |-> IF out[i].eventId = game.eventId THEN game ELSE out[i]]
  ELSE Append(out, game)

RECURSIVE ScoreboardEvents(_, _)
ScoreboardEvents(events, acc) ==
  IF events = <<>> THEN acc
  ELSE LET ev == Head(events)
       IN IF ~Truthy(ev.id) THEN ScoreboardEvents(Tail(events), acc)
          ELSE Bind(IF Truthy(ev.compId) THEN [compId |-> ev.compId, sent |-> 0]
                    ELSE resolveCompetitionId(ev), LAMBDA comp :
               Bind(getJson(ev.odds), LAMBDA oddsRoot :
               Bind(ItemQuotes(IF oddsRoot = <<>> THEN <<>> ELSE oddsRoot[1],
                               ev.homeTeam, ev.awayTeam), LAMBDA q :
                 ScoreboardEvents(Tail(events),
                   [out  |-> PutEvent(acc.out,
                               [eventId |-> ev.id, homeTeam |-> ev.homeTeam,
                                awayTeam |-> ev.awayTeam, commenceTime |-> ev.date,
                                quotes |-> q.quotes]),
                    sent |-> acc.sent + comp.sent + 1 + q.sent,
                    threw |-> FALSE]))))

getNflOddsToday(scoreboard) ==
  LET sb == getJson(scoreboard)
  IN IF sb = <<>> \/ sb[1] = <<>> THEN [out |-> <<>>, sent |-> 1, threw |-> FALSE]
     ELSE ScoreboardEvents(sb[1], [out |-> <<>>, sent |-> 1, threw |-> FALSE])

(***************************************************************************)
(* Route handlers (server/routes.ts).  Each yields the handler's final     *)
(* state st, the event list it looped over and the response it sent.       *)
(***************************************************************************)
DefaultSyncLimit == 25
DefaultBestLimit == 10
DefaultEspnLimit == 10
DefaultSeedLimit == 10
BestFetchLimit   == 25

Start(fail) ==
  [games |-> games, bookmakers |-> bookmakers, odds |-> odds,
   lineMovements |-> lineMovements, sports |-> sports, nextId |-> nextId,
   oddsKeyIndex |-> oddsKeyIndex, fail |-> fail, threw |-> FALSE,
   gamesUpdated |-> 0, oddsUpdated |-> 0, booksUpdated |-> 0, gamesSkipped |-> 0]

Reply(route, status, body) == [route |-> route, status |-> status, body |-> body]

\* a handler without its catch: an exception leaves the request unanswered
SyncOddsHandlerNoCatch(sport, limit, upstream, fail) ==
  Bind(getOdds(IF sport = "" THEN "CURLING" ELSE sport, limit, upstream), LAMBDA r :
       IF r.threw
       THEN [st |-> Start(fail), events |-> <<>>,
             response |-> Reply("sync", 0, [unhandled |-> TRUE])]
       ELSE Bind(SyncEvents("sync", Start(fail), r.events), LAMBDA st :
            [st |-> st, events |-> r.events,
             response |-> IF st.threw THEN Reply("sync", 0, [unhandled |-> TRUE])
                          ELSE Reply("sync", 200,
                                 [gamesUpdated |-> st.gamesUpdated,
                                  oddsUpdated  |-> st.oddsUpdated,
                                  gamesSkipped |-> st.gamesSkipped,
                                  provider     |-> "SportsDataIO"])]))

\* the route, were its writes undone when it fails
SyncOddsHandlerRollback(sport, limit, upstream, fail) ==
  Bind(SyncOddsHandlerNoCatch(sport, limit, upstream, fail), LAMBDA out :
    IF out.st.threw \/ out.response.status # 200
    THEN [st |-> Throw(Start(fail)), events |-> out.events,
          response |-> Reply("sync", 500, [message |-> "Failed to sync odds"])]
    ELSE out)

\* POST /api/odds/sync
SyncOddsHandler(sport, limit, upstream, fail) ==
  IF sport = ""
  THEN [st |-> Start(fail), events |-> <<>>,
        response |-> Reply("sync", 400, [message |-> "Sport parameter is required"])]
  ELSE Bind(getOdds(sport, limit, upstream), LAMBDA r :
       IF r.threw
       THEN [st |-> Start(fail), events |-> <<>>,
             response |-> Reply("sync", 500, [message |-> "Failed to sync odds"])]
       ELSE Bind(SyncEvents("sync", Start(fail), r.events), LAMBDA st :
            IF st.threw
            THEN [st |-> st, events |-> r.events,
                  response |-> Reply("sync", 500, [message |-> "Failed to sync odds"])]
            ELSE [st |-> st, events |-> r.events,
                  response |-> Reply("sync", 200,
                    [gamesUpdated |-> st.gamesUpdated,
                     oddsUpdated  |-> st.oddsUpdated,
                     gamesSkipped |-> st.gamesSkipped,
                     provider     |-> "SportsDataIO"])]))

\* POST /api/odds/sync-best: whether ESPN is asked after SportsDataIO
BestAsksEspn(sport, limit, upstream) ==
  LET r == getOdds(sport, limit, upstream)
  IN (r.threw \/ r.events = <<>>) /\ sport = "NFL"

\* a sync-best that stays with SportsDataIO whatever it returned
BestDataNoFallback(sport, limit, upstream, espn) ==
  LET r == getOdds(sport, limit, upstream)
  IN [data   |-> IF r.threw THEN <<>> ELSE r.events,
      source |-> IF r.threw THEN "none" ELSE "SportsDataIO"]

\* POST /api/odds/sync-best: the data looped over and the source reported
BestData(sport, limit, upstream, espn) ==
  LET r == getOdds(sport, limit, upstream)
      data1   == IF r.threw THEN <<>> ELSE r.events
      source1 == IF r.threw THEN "none" ELSE "SportsDataIO"
      useEspn == BestAsksEspn(sport, limit, upstream) /\ ~espn.threw
  IN [data   |-> IF useEspn THEN transformEspnToDbFormat(espn.data) ELSE data1,
      source |-> IF useEspn THEN "ESPN" ELSE source1]

\* POST /api/odds/sync-best
SyncBestHandler(sport, limit, upstream, espn, fail) ==
  Bind(BestData(sport, limit, upstream, espn), LAMBDA d :
  IF d.data = <<>>
  THEN [st |-> Start(fail), events |-> <<>>,
        response |-> Reply("syncBest", 503,
          [success |-> FALSE, error |-> "No odds sources available",
           attempted |-> IF sport = "NFL" THEN <<"SportsDataIO", "ESPN">>
                         ELSE <<"SportsDataIO">>])]
  ELSE Bind(Slice(d.data, limit), LAMBDA looped :
       Bind(SyncEvents("syncBest", Start(fail), looped), LAMBDA st :
            [st |-> st, events |-> looped,
             response |-> Reply("syncBest", 200,
               [success |-> TRUE, source |-> d.source, sport |-> sport,
                stats |-> [gamesUpdated |-> st.gamesUpdated,
                           booksUpdated |-> st.booksUpdated,
                           oddsUpdated  |-> st.oddsUpdated]])])))

\* POST /api/espn/nfl/sync
EspnSyncHandler(limit, espn, fail) ==
  IF espn.threw
  THEN [st |-> Start(fail), events |-> <<>>,
        response |-> Reply("espnSync", 500,
          [success |-> FALSE, error |-> "Failed to sync ESPN odds"])]
  ELSE Bind(Slice(transformEspnToDbFormat(espn.data), limit), LAMBDA looped :
       Bind(SyncEvents("espnSync", Start(fail), looped), LAMBDA st :
            IF st.threw
            THEN [st |-> st, events |-> looped,
                  response |-> Reply("espnSync", 500,
                    [success |-> FALSE, error |-> "Failed to sync ESPN odds"])]
            ELSE [st |-> st, events |-> looped,
                  response |-> Reply("espnSync", 200,
                    [success |-> TRUE,
                     stats |-> [gamesUpdated |-> st.gamesUpdated,
                                booksUpdated |-> st.booksUpdated,
                                oddsUpdated  |-> st.oddsUpdated,
                                source       |-> "ESPN"]])]))

\* POST /seed/sportsdata
SeedHandler(sport, limit, upstream, fail) ==
  Bind(getOdds(sport, limit, upstream), LAMBDA r :
  IF r.threw
  THEN [st |-> Start(fail), events |-> <<>>,
        response |-> Reply("seed", 500,
          [ok |-> FALSE, message |-> "Seed from SportsDataIO failed"])]
  ELSE Bind(Slice(r.events, limit), LAMBDA looped :
       Bind(SyncEvents("seed", [Start(fail) EXCEPT !.sports = @ \cup SupportedSports],
                       looped), LAMBDA st :
            IF st.threw
            THEN [st |-> st, events |-> looped,
                  response |-> Reply("seed", 500,
                    [ok |-> FALSE, message |-> "Seed from SportsDataIO failed"])]
            ELSE [st |-> st, events |-> looped,
                  response |-> Reply("seed", 200,
                    [ok |-> TRUE, seededFrom |-> "SportsDataIO",
                     gamesUpserted |-> st.gamesUpdated,
                     booksUpserted |-> st.booksUpdated,
                     oddsUpserted  |-> st.oddsUpdated])])))

\* GET /api/odds/best: data is null (has = FALSE) or an event list
BestReadData(sport, preferEspn, upstream, espn) ==
  LET r        == getOdds(sport, BestFetchLimit, upstream)
      espnGood == ~espn.threw /\ Len(espn.data) > 0
      espnData == [has |-> TRUE, events |-> transformEspnToDbFormat(espn.data),
                   source |-> "ESPN"]
      sdioData == [has |-> TRUE, events |-> r.events, source |-> "SportsDataIO"]
      none     == [has |-> FALSE, events |-> <<>>, source |-> "none"]
  IN IF preferEspn
     THEN (IF espnGood THEN espnData
           ELSE IF ~r.threw THEN sdioData ELSE none)
     ELSE (IF ~r.threw /\ r.events # <<>> THEN sdioData
           ELSE IF espnGood THEN espnData
           ELSE IF ~r.threw THEN sdioData ELSE none)

\* GET /api/odds/best
OddsBestHandler(sport, preferEspn, upstream, espn) ==
  Bind(BestReadData(sport, preferEspn, upstream, espn), LAMBDA d :
  [st |-> Start(NoFail), events |-> d.events,
   response |->
     IF ~d.has
     THEN Reply("best", 503,
            [success |-> FALSE, error |-> "No odds sources available",
             tried |-> <<"SportsDataIO", "ESPN">>])
     ELSE Reply("best", 200,
            [success |-> TRUE, source |-> d.source, count |-> Len(d.events)])])

(***************************************************************************)
(* GET /api/odds/unified: both providers are asked, the outcomes are       *)
(* settled one by one and their events merged.                             *)
(***************************************************************************)
DefaultUnifiedLimit == 25

Tag(event, source) ==
  [id |-> event.id, home_team |-> event.home_team, away_team |-> event.away_team,
   commence_time |-> event.commence_time, bookmakers |-> event.bookmakers,
   source |-> source]

\* results.combined.find(...): the index of the first match, 0 for none
FindExisting(combined, event) ==
  LET hits == {i \in 1..Len(combined) :
                 /\ combined[i].home_team = event.home_team
                 /\ combined[i].away_team = event.away_team}
  IN IF hits = {} THEN 0 ELSE CHOOSE i \in hits : \A j \in hits : i <= j

\* a merge that lets a newcomer with as many bookmakers take the place
MergeEventEager(combined, event) ==
  Bind(FindExisting(combined, event), LAMBDA i :
    IF i # 0 /\ Len(combined[i].bookmakers) <= Len(event.bookmakers)
    THEN [combined EXCEPT ![i] = Tag(event, "SportsDataIO")]
    ELSE IF i = 0 THEN Append(combined, Tag(event, "SportsDataIO"))
    ELSE combined)

\* one turn of sdioData.forEach
MergeEvent(combined, event) ==
  Bind(FindExisting(combined, event), LAMBDA i :
    IF i # 0 /\ Len(combined[i].bookmakers) < Len(event.bookmakers)
    THEN [combined EXCEPT ![i] = Tag(event, "SportsDataIO")]
    ELSE IF i = 0 THEN Append(combined, Tag(event, "SportsDataIO"))
    ELSE combined)

RECURSIVE MergeEvents(_, _)
MergeEvents(combined, events) ==
  IF events = <<>> THEN combined
  ELSE Bind(MergeEvent(combined, Head(events)), LAMBDA c : MergeEvents(c, Tail(events)))

\* results.combined.sort by commence time; Array.prototype.sort is stable
RECURSIVE sortByCommence(_)
sortByCommence(evs) ==
  IF evs = <<>> THEN <<>>
  ELSE LET t == getTime(NewDate(Head(evs).commence_time))
           rest == sortByCommence(Tail(evs))
           before == SelectSeq(rest, LAMBDA e : getTime(NewDate(e.commence_time)) < t)
           after  == SelectSeq(rest, LAMBDA e : getTime(NewDate(e.commence_time)) >= t)
       IN before \o <<Head(evs)>> \o after

\* the entry of results.sources for one settled provider
SourceEntry(name, result) ==
  IF result.threw
  THEN [name |-> name, status |-> "failed", error |-> "rejected"]
  ELSE [name |-> name, status |-> "success", events |-> Len(result.events)]

\* the handler, had it awaited both providers with Promise.all
UnifiedHandlerAll(sport, limit, upstream, espn) ==
  Bind([espnResult |-> IF sport = "NFL" /\ ~espn.threw
                       THEN [threw |-> FALSE, events |-> transformEspnToDbFormat(espn.data)]
                       ELSE [threw |-> TRUE, events |-> <<>>],
        sdioResult |-> getOdds(sport, limit, upstream)], LAMBDA r :
  IF r.espnResult.threw \/ r.sdioResult.threw
  THEN [st |-> Start(NoFail), events |-> <<>>,
        response |-> Reply("unified", 500, [success |-> FALSE, error |-> "rejected"])]
  ELSE
  Bind(MergeEvents([i \in 1..Len(r.espnResult.events) |-> Tag(r.espnResult.events[i], "ESPN")],
                   r.sdioResult.events), LAMBDA merged :
  [st |-> Start(NoFail), events |-> merged,
   response |->
     Reply("unified", 200,
       [success |-> Len(Slice(merged, limit)) > 0,
        sport |-> sport,
        sources |-> <<SourceEntry("ESPN", r.espnResult),
                      SourceEntry("SportsDataIO", r.sdioResult)>>,
        totalEvents |-> Len(merged),
        combined |-> Slice(sortByCommence(merged), limit)])]))

\* GET /api/odds/unified
UnifiedHandler(sport, limit, upstream, espn) ==
  Bind([espnResult |-> IF sport = "NFL" /\ ~espn.threw
                       THEN [threw |-> FALSE, events |-> transformEspnToDbFormat(espn.data)]
                       ELSE [threw |-> TRUE, events |-> <<>>],
        sdioResult |-> getOdds(sport, limit, upstream)], LAMBDA r :
  Bind(MergeEvents(IF r.espnResult.threw THEN <<>>
                   ELSE [i \in 1..Len(r.espnResult.events) |->
                           Tag(r.espnResult.events[i], "ESPN")],
                   IF r.sdioResult.threw THEN <<>> ELSE r.sdioResult.events), LAMBDA merged :
  [st |-> Start(NoFail), events |-> merged,
   response |->
     Reply("unified", 200,
       [success |-> Len(Slice(merged, limit)) > 0,
        sport |-> sport,
        sources |-> <<SourceEntry("ESPN", r.espnResult),
                      SourceEntry("SportsDataIO", r.sdioResult)>>,
        totalEvents |-> Len(merged),
        combined |-> Slice(sortByCommence(merged), limit)])]))

\* GET /api/odds/best: whether ESPN is asked
BestReadAsksEspn(sport, preferEspn, upstream) ==
  LET r == getOdds(sport, BestFetchLimit, upstream)
  IN preferEspn \/ r.threw \/ r.events = <<>>

(***************************************************************************)
(* The inputs: provider events, upstream behaviours, ESPN results.         *)
(***************************************************************************)
KansasCityChiefs == <<"K", "a", "n", "s", "a", "s", " ", "C", "i", "t", "y", " ", "C", "h", "i", "e", "f", "s">>
BuffaloBills     == <<"B", "u", "f", "f", "a", "l", "o", " ", "B", "i", "l", "l", "s">>
KC               == <<"K", "C">>
EvenName         == <<"E", "v", "e", "n">>
HomeName         == <<"H", "o", "m", "e">>
DraftKingsKey    == <<"d", "k">>
DraftKingsTitle  == <<"D", "K">>

Outcome(name, price, point) == [name |-> name, price |-> <<price>>, point |-> point]
Market(key, outcomes) == [key |-> key, outcomes |-> outcomes]
Book(markets) ==
  [key |-> DraftKingsKey, title |-> DraftKingsTitle, last_update |-> KickOff,
   markets |-> markets]
Event(id, home, away, time, bms) ==
  [id |-> <<id>>, home_team |-> home, away_team |-> away, commence_time |-> time,
   bookmakers |-> bms]

\* points are in tenths: 30 is a line of 3.0
SpreadAt(point) == <<Book(<<Market("spreads", <<Outcome(KansasCityChiefs, -110, <<point>>)>>)>>)>>
FullBoard ==
  <<Book(<<Market("h2h", <<Outcome(KansasCityChiefs, -150, <<>>),
                            Outcome(BuffaloBills, 130, <<>>)>>),
           Market("totals", <<Outcome(OverName, -110, <<475>>),
                              Outcome(UnderName, -105, <<475>>)>>)>>)>>
AbbrevOnly  == <<Book(<<Market("h2h", <<Outcome(KC, 150, <<>>)>>)>>)>>
\* the adapter's name for the home side of a game that has no HomeTeam field
HomeMarker  == <<Book(<<Market("h2h", <<Outcome(HomeName, -150, <<>>)>>)>>)>>
OddMarkets  == <<Book(<<Market("totals", <<Outcome(EvenName, -110, <<475>>)>>),
                        Market("player_props", <<Outcome(KansasCityChiefs, 120, <<>>)>>)>>)>>

GoodEvents ==
  {Event("g1", KansasCityChiefs, BuffaloBills, KickOff, bms) :
     bms \in {SpreadAt(30), SpreadAt(35), FullBoard, AbbrevOnly, HomeMarker, OddMarkets}}

BadEvents ==
  {Event("g2", KansasCityChiefs, <<>>, KickOff, SpreadAt(30)),
   Event("g2", <<>>, BuffaloBills, KickOff, SpreadAt(30)),
   Event("g2", KansasCityChiefs, BuffaloBills, "null", SpreadAt(30)),
   Event("g2", KansasCityChiefs, BuffaloBills, "garbage", SpreadAt(30))}

FullGame == Event("g1", KansasCityChiefs, BuffaloBills, KickOff, FullBoard)

Events == GoodEvents \cup BadEvents

\* a provider answer lists each game once
Batches ==
  {<<>>} \cup {<<e>> : e \in Events}
         \cup {<<b, FullGame>> : b \in BadEvents}

Answers(status, body) == <<[status |-> status, body |-> body]>>

Serving(b)   == [odds |-> Answers(200, b), games |-> Answers(200, b)]
RateLimited  == [odds |-> Answers(429, <<>>), games |-> Answers(429, <<>>)]
ServerError  == [odds |-> Answers(500, <<>>), games |-> Answers(500, <<>>)]
OddsLimited(b) == [odds |-> Answers(429, <<>>), games |-> Answers(200, b)]
ThirdTimeLucky(b) ==
  [odds  |-> <<[status |-> 429, body |-> <<>>], [status |-> 429, body |-> <<>>],
               [status |-> 200, body |-> b]>>,
   games |-> Answers(429, <<>>)]

SdioUpstreams ==
  {Serving(b) : b \in Batches}
    \cup {RateLimited, ServerError}
    \cup {OddsLimited(<<FullGame>>), ThirdTimeLucky(<<FullGame>>)}

Quote(market, team, price, point) ==
  [book |-> DraftKingsTitle, market |-> market, team |-> team, price |-> price,
   point |-> point, updated |-> KickOff]

EspnGame(time, quotes) ==
  [eventId |-> <<"e1">>, homeTeam |-> KansasCityChiefs, awayTeam |-> BuffaloBills,
   commenceTime |-> time, quotes |-> quotes]

EspnData ==
  {<<>>,
   <<EspnGame(KickOff, <<>>)>>,
   <<EspnGame(KickOff, <<Quote("moneyline", "home", <<-150>>, <<>>),
                         Quote("spreads", "away", <<-110>>, <<30>>),
                         Quote("totals", "home", <<-110>>, <<475>>)>>)>>,
   <<EspnGame(KickOff, <<Quote("spreads", "away", <<-110>>, <<35>>)>>)>>,
   <<EspnGame("garbage", <<Quote("moneyline", "home", <<-150>>, <<>>)>>)>>}

EspnAnswers ==
  {[threw |-> TRUE, data |-> <<>>]} \cup {[threw |-> FALSE, data |-> d] : d \in EspnData}

EspnNotAsked == [threw |-> TRUE, data |-> <<>>]

Faults == {NoFail}

\* a batch for the rows the database rejects: a game with two bookmakers,
\* then a later game
FanDuel(markets) ==
  [key |-> <<"f", "d">>, title |-> <<"F", "D">>, last_update |-> KickOff,
   markets |-> markets]
TwoBooks ==
  Event("g1", KansasCityChiefs, BuffaloBills, KickOff,
        <<Book(<<Market("h2h", <<Outcome(KansasCityChiefs, -150, <<>>),
                                 Outcome(BuffaloBills, 130, <<>>)>>)>>),
          FanDuel(<<Market("h2h", <<Outcome(KansasCityChiefs, -145, <<>>)>>)>>)>>)
LaterGame == Event("g3", KansasCityChiefs, BuffaloBills, KickOff, SpreadAt(30))
FaultBatch == <<TwoBooks, LaterGame>>

\* the one row whose write the database rejects during the request
RowFaults ==
  {<<"bookmakers", DraftKingsKey>>,
   <<"odds", <<<<"g1">>, DraftKingsKey, "h2h", "home">>>>}

\* the write of the later game is rejected, after every row of the first
LateFault == <<"games", <<"g3">>>>

\* the inputs of the combined read: the same game from both providers with
\* more, as many or fewer bookmakers, in another spelling, and a second game
QuoteAt(book) == [Quote("moneyline", "home", <<-150>>, <<>>) EXCEPT !.book = book]
EspnNoBooks  == EspnGame(KickOff, <<>>)
EspnOneBook  == EspnGame(KickOff, <<QuoteAt(DraftKingsTitle)>>)
EspnTwoBooks == EspnGame(KickOff, <<QuoteAt(DraftKingsTitle), QuoteAt(<<"F", "D">>)>>)
EspnReturn   ==
  [eventId |-> <<"e2">>, homeTeam |-> BuffaloBills, awayTeam |-> KansasCityChiefs,
   commenceTime |-> LateKickOff, quotes |-> <<QuoteAt(DraftKingsTitle)>>]
\* a second ESPN event between the same two teams
EspnRematch  == [EspnOneBook EXCEPT !.eventId = <<"e3">>, !.commenceTime = LateKickOff]
UnifiedEspnAnswers ==
  {[threw |-> TRUE, data |-> <<>>]}
    \cup {[threw |-> FALSE, data |-> d] :
            d \in {<<>>, <<EspnNoBooks>>, <<EspnOneBook>>, <<EspnTwoBooks>>,
                    <<EspnReturn, EspnOneBook>>, <<EspnOneBook, EspnRematch>>}}

SdioOne   == Event("g1", KansasCityChiefs, BuffaloBills, KickOff, SpreadAt(30))
SdioLower ==
  Event("g1", toLowerCase(KansasCityChiefs), toLowerCase(BuffaloBills), KickOff,
        TwoBooks.bookmakers)
SdioLate  == Event("g3", BuffaloBills, KansasCityChiefs, LateKickOff, SpreadAt(30))
UnifiedBatches ==
  {<<>>, <<SdioOne>>, <<TwoBooks>>, <<SdioLower>>,
   <<SdioOne, [TwoBooks EXCEPT !.id = <<"g4">>]>>, <<SdioLate, SdioOne>>}

(***************************************************************************)
(* The state machine: one action per route.                                *)
(***************************************************************************)
Init ==
  /\ games = {}
  /\ bookmakers = {}
  /\ odds = {}
  /\ lineMovements = {}
  /\ sports = {}
  /\ nextId = 1
  /\ oddsKeyIndex \in BOOLEAN
  /\ response = Reply("none", 0, [message |-> "none"])
  /\ requests = 0
  /\ inFlight = {}
  /\ lastSync = [route |-> "none", input |-> <<>>, events |-> <<>>, fail |-> NoFail,
                 repeat |-> FALSE]
  /\ prev = [games |-> {}, bookmakers |-> {}, odds |-> {}, lineMovements |-> {}]

\* the handler's writes and its response become the new state
Commit(route, input, out) ==
  /\ games' = out.st.games
  /\ bookmakers' = out.st.bookmakers
  /\ odds' = out.st.odds
  /\ lineMovements' = out.st.lineMovements
  /\ sports' = out.st.sports
  /\ nextId' = out.st.nextId
  /\ UNCHANGED oddsKeyIndex
  /\ response' = out.response
  /\ requests' = requests + 1
  /\ lastSync' = [route |-> route, input |-> input, events |-> out.events,
                  fail |-> out.st.fail,
                  repeat |-> /\ lastSync.route = route
                             /\ lastSync.input = input
                             /\ lastSync.fail = out.st.fail]
  /\ prev' = [games |-> games, bookmakers |-> bookmakers, odds |-> odds,
              lineMovements |-> lineMovements]

SyncOdds ==
  /\ requests < MaxRequests
  /\ UNCHANGED inFlight
  /\ \/ \E upstream \in SdioUpstreams, fail \in Faults :
          \E out \in {SyncOddsHandler("NFL", DefaultSyncLimit, upstream, fail)} :
             Commit("sync", <<"NFL", upstream>>, out)
     \/ \E sport \in {"", "CURLING"}, fail \in Faults :
          \E out \in {SyncOddsHandler(sport, DefaultSyncLimit, RateLimited, fail)} :
             Commit("sync", <<sport, RateLimited>>, out)

SyncBest ==
  /\ requests < MaxRequests
  /\ UNCHANGED inFlight
  /\ \E sport \in {"NFL", "NBA"}, upstream \in SdioUpstreams, fail \in Faults :
       \E espn \in IF BestAsksEspn(sport, DefaultBestLimit, upstream)
                    THEN EspnAnswers ELSE {EspnNotAsked} :
          \E out \in {SyncBestHandler(sport, DefaultBestLimit, upstream, espn, fail)} :
             Commit("syncBest", <<sport, upstream, espn>>, out)

EspnSync ==
  /\ requests < MaxRequests
  /\ UNCHANGED inFlight
  /\ \E limit \in {1, DefaultEspnLimit}, espn \in EspnAnswers, fail \in Faults :
       \E out \in {EspnSyncHandler(limit, espn, fail)} :
          Commit("espnSync", <<limit, espn>>, out)

SeedSportsData ==
  /\ requests < MaxRequests
  /\ UNCHANGED inFlight
  /\ \E upstream \in SdioUpstreams, fail \in Faults :
       \E out \in {SeedHandler("NFL", DefaultSeedLimit, upstream, fail)} :
          Commit("seed", <<"NFL", upstream>>, out)

OddsBest ==
  /\ requests < MaxRequests
  /\ UNCHANGED inFlight
  /\ \E preferEspn \in BOOLEAN :
       \E q \in {<<"NFL", upstream>> : upstream \in SdioUpstreams}
                   \cup {<<"CURLING", RateLimited>>} :
          \E espn \in IF BestReadAsksEspn(q[1], preferEspn, q[2])
                       THEN EspnAnswers ELSE {EspnNotAsked} :
             \E out \in {OddsBestHandler(q[1], preferEspn, q[2], espn)} :
                Commit("best", <<q[1], preferEspn, q[2], espn>>, out)

\* a sync during which the database rejects the write of one row
SyncRowRejected ==
  /\ requests < MaxRequests
  /\ UNCHANGED inFlight
  /\ \E fail \in RowFaults \cup {LateFault} :
       \/ \E out \in {SyncOddsHandler("NFL", DefaultSyncLimit, Serving(FaultBatch), fail)} :
             Commit("sync", <<"NFL", Serving(FaultBatch)>>, out)
       \/ \E out \in {SyncBestHandler("NFL", DefaultBestLimit, Serving(FaultBatch),
                                       EspnNotAsked, fail)} :
             Commit("syncBest", <<"NFL", Serving(FaultBatch), EspnNotAsked>>, out)

(***************************************************************************)
(* Overlapping sync cycles.  An Express handler runs up to its first await *)
(* and yields; another request may start before it answers.  A cycle is    *)
(* in flight from the arrival of its request to its response; its writes   *)
(* are taken at the response.  Neither route tests a running flag.         *)
(***************************************************************************)
FlightUpstreams ==
  {Serving(<<Event("g1", KansasCityChiefs, BuffaloBills, KickOff, bms)>>) :
     bms \in {SpreadAt(30), SpreadAt(35), FullBoard}} \cup {RateLimited}

\* POST /api/odds/sync or /api/odds/sync-best arrives: the handler starts
SyncTrigger ==
  /\ Cardinality(inFlight) + requests < MaxCycles
  /\ \E route \in {"sync", "syncBest"}, upstream \in FlightUpstreams :
       inFlight' = inFlight \cup {[n |-> requests + Cardinality(inFlight) + 1,
                                   route |-> route, upstream |-> upstream]}
  /\ UNCHANGED <<games, bookmakers, odds, lineMovements, sports, nextId,
                 oddsKeyIndex, response, requests, lastSync, prev>>

\* a cycle in flight answers
SyncComplete ==
  \E c \in inFlight :
     /\ inFlight' = inFlight \ {c}
     /\ \E out \in {IF c.route = "sync"
                     THEN SyncOddsHandler("NFL", DefaultSyncLimit, c.upstream, NoFail)
                     ELSE SyncBestHandler("NFL", DefaultBestLimit, c.upstream,
                                          EspnNotAsked, NoFail)} :
          Commit(c.route, <<"NFL", c.upstream>>, out)

\* GET /api/odds/unified
OddsUnified ==
  /\ requests < MaxRequests
  /\ UNCHANGED inFlight
  /\ \E q \in {<<"NFL", Serving(b), espn, limit>> :
                  b \in UnifiedBatches, espn \in UnifiedEspnAnswers,
                  limit \in {1, DefaultUnifiedLimit}}
              \cup {<<"NBA", Serving(b), EspnNotAsked, DefaultUnifiedLimit>> :
                      b \in UnifiedBatches}
              \cup {<<"CURLING", RateLimited, EspnNotAsked, DefaultUnifiedLimit>>} :
       \E out \in {UnifiedHandler(q[1], q[4], q[2], q[3])} :
          Commit("unified", q, out)

UnifiedNext == OddsUnified

UnifiedSpec == Init /\ [][UnifiedNext]_vars

(***************************************************************************)
(* Best price per outcome, over every table of stored quotes.  Neither     *)
(* query orders rows of equal sort key, and last_update is not part of     *)
(* the model, so the order in which the database hands over the rows is    *)
(* any order the query allows.                                             *)
(***************************************************************************)
Orders(S) ==
  {f \in [1..Cardinality(S) -> S] : \A i, j \in 1..Cardinality(S) : f[i] = f[j] => i = j}

\* storage.getOddsByGame: the rows of the game, in the order chosen
getOddsByGame(order, gameId) == SelectSeq(order, LAMBDA r : r.gameId = gameId)

\* Number(row.price) of a decimal column: its number, and 0 for null
PriceNum(row) == IF row.price = <<>> THEN 0 ELSE row.price[1]

\* a comparison of prices by their size without the sign
BetterPriceAbs(priceNum, held) ==
  (IF priceNum < 0 THEN 0 - priceNum ELSE priceNum) > (IF held < 0 THEN 0 - held ELSE held)

\* priceNum > Number(acc[side].price)
BetterPrice(priceNum, held) == priceNum > held

\* rows.reduce: acc maps a side to the row held for it, <<>> for none
RECURSIVE BestReduce(_, _)
BestReduce(rows, acc) ==
  IF rows = <<>> THEN acc
  ELSE LET row  == Head(rows)
           side == row.outcomeType
       IN IF acc[side] = <<>> \/ BetterPrice(PriceNum(row), PriceNum(acc[side][1]))
          THEN BestReduce(Tail(rows), [acc EXCEPT ![side] = <<row>>])
          ELSE BestReduce(Tail(rows), acc)

Sides == {"home", "away", "over", "under"}

\* GET /api/games/:gameId/best-odds/summary
BestOddsSummaryHandler(order, gameId, market) ==
  Bind(SelectSeq(getOddsByGame(order, gameId), LAMBDA r : r.market = market), LAMBDA rows :
  Bind(BestReduce(rows, [side \in Sides |-> <<>>]), LAMBDA best :
    Reply("bestOddsSummary", 200,
          [gameId |-> gameId, market |-> market,
           bestHome |-> best["home"], bestAway |-> best["away"],
           bestOver |-> best["over"], bestUnder |-> best["under"]])))

\* storage.getBestOdds: the joined rows of the game and market; order is one
\* of the orders by price, highest first
getBestOdds(order, gameId, market) ==
  SelectSeq(order, LAMBDA r : /\ r.gameId = gameId
                              /\ r.market = market
                              /\ \E b \in bookmakers : b.id = r.bookmakerId)

PriceDescending(rows) ==
  \A i, j \in 1..Len(rows) : i < j => PriceNum(rows[i]) >= PriceNum(rows[j])

\* the stored quotes: up to three books on the home side of g1, an away
\* quote, a quote of another market and a quote of another game
StoredQuote(id, gameId, book, market, side, price) ==
  [id |-> id, gameId |-> <<gameId>>, bookmakerId |-> book, market |-> market,
   outcomeType |-> side, price |-> <<price>>, point |-> <<>>]

QuotePrices == {-110, -105, 150}

BookKeys == <<DraftKingsKey, <<"f", "d">>, <<"m", "g">>>>

OddsTables ==
  {{StoredQuote(i, "g1", BookKeys[i], "h2h", "home", f[i]) : i \in {k \in 1..3 : f[k] # 0}}
     \cup away
     \cup {StoredQuote(5, "g1", DraftKingsKey, "spreads", "home", 150),
           StoredQuote(6, "g2", DraftKingsKey, "h2h", "home", 150)} :
   f \in [1..3 -> QuotePrices \cup {0}],
   away \in {{}, {StoredQuote(4, "g1", DraftKingsKey, "h2h", "away", -105)}}}

BestOddsInit ==
  /\ games = {}
  /\ bookmakers = {[id |-> BookKeys[i], title |-> BookKeys[i]] : i \in 1..3}
  /\ odds \in OddsTables
  /\ lineMovements = {}
  /\ sports = {}
  /\ nextId = 7
  /\ oddsKeyIndex = TRUE
  /\ response = Reply("none", 0, [message |-> "none"])
  /\ requests = 0
  /\ inFlight = {}
  /\ lastSync = [route |-> "none", input |-> <<>>, events |-> <<>>, fail |-> NoFail,
                 repeat |-> FALSE]
  /\ prev = [games |-> {}, bookmakers |-> {}, odds |-> {}, lineMovements |-> {}]

QueryCall(name, input, seen, reply) ==
  /\ response' = reply
  /\ lastSync' = [route |-> name, input |-> input, events |-> seen, fail |-> NoFail,
                  repeat |-> FALSE]
  /\ UNCHANGED <<games, bookmakers, odds, lineMovements, sports, nextId, oddsKeyIndex,
                 requests, inFlight, prev>>

BestOddsSummary ==
  /\ lastSync.route = "none"
  /\ \E market \in {"h2h", "spreads", "totals"} :
        \E order \in Orders({r \in odds : r.gameId = <<"g1">>}) :
           QueryCall("bestOddsSummary", <<<<"g1">>, market>>, order,
                     BestOddsSummaryHandler(order, <<"g1">>, market))

BestOdds ==
  /\ lastSync.route = "none"
  /\ \E market \in {"h2h", "spreads", "totals"} :
        \E order \in {o \in Orders({r \in odds : r.gameId = <<"g1">>}) :
                         PriceDescending(getBestOdds(o, <<"g1">>, market))} :
           QueryCall("bestOdds", <<<<"g1">>, market>>, order,
                     Reply("bestOdds", 200, getBestOdds(order, <<"g1">>, market)))

BestOddsNext == BestOddsSummary \/ BestOdds

BestOddsSpec == BestOddsInit /\ [][BestOddsNext]_vars

(***************************************************************************)
(* Big movers, over tables of line movements.  No route writes the table,  *)
(* so its rows are given.  Time is counted in hours; movements are in      *)
(* tenths; rows have distinct timestamps.                                  *)
(***************************************************************************)
MoversNow == 100
DefaultMoverHours == 2
DefaultMinMovement == 10
RouteDefaultHours == 24
RouteDefaultMinMovement == 10
MoversLimit == 10

Abs(n) == IF n < 0 THEN 0 - n ELSE n

\* ORDER BY timestamp DESC
RECURSIVE OrderByTimestampDesc(_)
OrderByTimestampDesc(rows) ==
  IF rows = {} THEN <<>>
  ELSE LET top == CHOOSE r \in rows : \A x \in rows : x.timestamp <= r.timestamp
       IN <<top>> \o OrderByTimestampDesc(rows \ {top})

\* storage.getBigMovers; an argument left out is <<>>
getBigMovers(hours, minMovement) ==
  LET h        == IF hours = <<>> THEN DefaultMoverHours ELSE hours[1]
      m        == IF minMovement = <<>> THEN DefaultMinMovement ELSE minMovement[1]
      hoursAgo == MoversNow - h
      joined   == {[id |-> r.id, gameId |-> r.gameId, market |-> r.market,
                    movement |-> r.movement, timestamp |-> r.timestamp, game |-> g] :
                   r \in {x \in lineMovements : /\ x.timestamp >= hoursAgo
                                                  /\ x.movement # <<>>
                                                  /\ Abs(x.movement[1]) >= m},
                   g \in {y \in games : TRUE}}
  IN Slice(OrderByTimestampDesc({j \in joined : j.game.id = j.gameId}), MoversLimit)

\* GET /api/line-movements/big-movers; a query parameter left out is <<>>
BigMoversHandler(hoursQuery, minMovementQuery) ==
  Reply("bigMovers", 200,
        getBigMovers(IF hoursQuery = <<>> THEN <<RouteDefaultHours>> ELSE hoursQuery,
                     IF minMovementQuery = <<>> THEN <<RouteDefaultMinMovement>>
                     ELSE minMovementQuery))

Movement(id, hoursOld, movement) ==
  [id |-> id, gameId |-> <<"g1">>, market |-> "spreads", movement |-> movement,
   timestamp |-> MoversNow - hoursOld]

MovementRows ==
  {Movement(1, 1, <<15>>), Movement(2, 3, <<-20>>), Movement(3, 10, <<10>>),
   Movement(4, 30, <<25>>), Movement(5, 2, <<5>>), Movement(6, 4, <<>>)}

\* twelve movements of the last half day
BusyTable == {Movement(20 + i, i, <<15>>) : i \in 0..11}

BigMoversInit ==
  /\ games = {[id |-> <<"g1">>, homeTeam |-> KansasCityChiefs, awayTeam |-> BuffaloBills,
               commenceTime |-> KickOff]}
  /\ bookmakers = {}
  /\ odds = {}
  /\ lineMovements \in SUBSET MovementRows \cup {BusyTable}
  /\ sports = {}
  /\ nextId = 40
  /\ oddsKeyIndex = TRUE
  /\ response = Reply("none", 0, [message |-> "none"])
  /\ requests = 0
  /\ inFlight = {}
  /\ lastSync = [route |-> "none", input |-> <<>>, events |-> <<>>, fail |-> NoFail,
                 repeat |-> FALSE]
  /\ prev = [games |-> {}, bookmakers |-> {}, odds |-> {}, lineMovements |-> {}]

BigMovers ==
  /\ lastSync.route = "none"
  /\ \E hoursQuery \in {<<>>, <<2>>, <<24>>, <<48>>},
        minMovementQuery \in {<<>>, <<5>>, <<20>>} :
        QueryCall("bigMovers", <<hoursQuery, minMovementQuery>>, <<>>,
                  BigMoversHandler(hoursQuery, minMovementQuery))

\* the storage method called as it stands, with or without its arguments
GetBigMovers ==
  /\ lastSync.route = "none"
  /\ \E hours \in {<<>>, <<2>>, <<24>>}, minMovement \in {<<>>, <<20>>} :
        QueryCall("getBigMovers", <<hours, minMovement>>, <<>>,
                  Reply("getBigMovers", 200, getBigMovers(hours, minMovement)))

BigMoversNext == BigMovers \/ GetBigMovers

BigMoversSpec == BigMoversInit /\ [][BigMoversNext]_vars

(***************************************************************************)
(* A sync of a SportsDataIO payload: the transform, then the route.  The   *)
(* payloads are one game with one PregameOdds entry whose fields are left  *)
(* out, null, zero, a number or a text, and a game with entries of two     *)
(* sportsbooks.                                                            *)
(***************************************************************************)
SyncRoutes == {"sync", "syncBest", "espnSync"}

RawOdd(book, moneyline, spread, total) ==
  [Sportsbook |-> book,
   HomeMoneyLine |-> moneyline[1], AwayMoneyLine |-> moneyline[2],
   PointSpread |-> spread[1], HomePointSpreadPayout |-> spread[2],
   AwayPointSpreadPayout |-> spread[3],
   OverUnder |-> total[1], OverPayout |-> total[2], UnderPayout |-> total[3]]

RawMoneylines ==
  {<<Undef, Undef>>, <<Num(-150), Num(130)>>, <<Num(0), Num(130)>>, <<Text, Undef>>}
RawSpreads ==
  {<<Undef, Undef, Undef>>, <<Num(30), Num(-110), Num(-110)>>, <<Num(0), Num(-110), Num(100)>>,
   <<Num(30), Num(0), Null>>, <<Null, Num(-110), Undef>>, <<Text, Num(-110), Undef>>}
RawTotals ==
  {<<Undef, Undef, Undef>>, <<Num(475), Num(-110), Num(-105)>>, <<Text, Num(-110), Null>>,
   <<Num(475), Text, Undef>>}

RawGame(home, pregameOdds) ==
  [GameID |-> <<"g1">>, HomeTeam |-> home, AwayTeam |-> BuffaloBills, DateTime |-> KickOff,
   PregameOdds |-> pregameOdds]

RawPayloads ==
  {<<RawGame(home, <<RawOdd(DraftKingsKey, m, sp, t)>>)>> :
     home \in {KansasCityChiefs, <<>>}, m \in RawMoneylines, sp \in RawSpreads, t \in RawTotals}
  \cup {<<RawGame(KansasCityChiefs,
                  <<RawOdd(DraftKingsKey, <<Num(-150), Num(130)>>, <<Undef, Undef, Undef>>,
                           <<Undef, Undef, Undef>>),
                    RawOdd(book, <<Num(-145), Undef>>, <<Num(35), Num(-105), Undef>>,
                           <<Undef, Undef, Undef>>)>>)>> :
          book \in {DraftKingsKey, <<"f", "d">>, <<>>}}

\* POST /api/odds/sync and /api/odds/sync-best of a payload
RawSync ==
  /\ lastSync.route = "none"
  /\ UNCHANGED inFlight
  /\ \E payload \in RawPayloads, route \in {"sync", "syncBest"} :
        \E out \in {IF route = "sync"
                     THEN SyncOddsHandler("NFL", DefaultSyncLimit,
                                          Serving(transformOddsData(payload)), NoFail)
                     ELSE SyncBestHandler("NFL", DefaultBestLimit,
                                          Serving(transformOddsData(payload)),
                                          EspnNotAsked, NoFail)} :
           Commit(route, payload, out)

RawNext == RawSync

RawSpec == Init /\ [][RawNext]_vars

(***************************************************************************)
(* The adapters' own loops, called with every upstream behaviour.  A call  *)
(* writes nothing and depends on nothing but its arguments, so each call   *)
(* is taken from the constructed state; its input and its result are kept  *)
(* for the properties.                                                     *)
(***************************************************************************)
StatusAnswers ==
  UNION {[1..n -> {[status |-> c, body |-> <<>>] : c \in {200, 429, 500}}] :
           n \in 1..MaxAnswers}

CursorPages ==
  UNION {[1..n -> [items : 0..MaxPageItems, next : BOOLEAN]] : n \in 1..MaxCursorPages}

AdapterCall(name, input, status, body) ==
  /\ response' = Reply(name, status, body)
  /\ lastSync' = [route |-> name, input |-> input, events |-> <<>>, fail |-> NoFail,
                  repeat |-> FALSE]
  /\ UNCHANGED <<games, bookmakers, odds, lineMovements, sports, nextId, oddsKeyIndex,
                 requests, inFlight, prev>>

FetchSportsDataIo ==
  /\ lastSync.route = "none"
  /\ \E answers \in StatusAnswers :
        \E r \in {fetchWithRetry(answers, 1)} :
           AdapterCall("fetchWithRetry", answers, r.status, [threw |-> r.threw, sent |-> r.sent])

FetchSportsGameOdds ==
  /\ lastSync.route = "none"
  /\ \E answers \in StatusAnswers :
        \E r \in {fetchJsonWith429Retry(answers, 1)} :
           AdapterCall("fetchJsonWith429Retry", answers, r.status,
                       [threw |-> r.threw, sent |-> r.sent])

PagedOdds ==
  /\ lastSync.route = "none"
  /\ \E pages \in CursorPages, limit \in 1..2, maxPages \in 0..MaxPagesCap :
        \E r \in {sgoGetOdds(pages, limit, maxPages)} :
           AdapterCall("sgoGetOdds", <<pages, limit, maxPages>>, 200, r)

PagedOddsDoWhile ==
  /\ lastSync.route = "none"
  /\ \E pages \in CursorPages, limitPerPage \in 1..2, maxPages \in 0..MaxPagesCap :
        \E r \in {sgoGetOddsDoWhile(pages, limitPerPage, maxPages)} :
           AdapterCall("sgoGetOddsDoWhile", <<pages, limitPerPage, maxPages>>, 200, r)

\* the provider key of the environment: absent, or set
EnvKeys == {<<>>, <<"k", "1">>}

\* the key the earlier SportsDataIO constructor falls back to
FallbackKey == <<"7", "b", "7", "d">>

\* constructors: the key the service holds, or the exception of the constructor
assertApiKey(envKey) ==
  IF ~Truthy(envKey) THEN [threw |-> TRUE, apiKey |-> <<>>]
  ELSE [threw |-> FALSE, apiKey |-> envKey]

SportsDataIoServiceEarlier(envKey) ==
  [threw |-> FALSE, apiKey |-> IF Truthy(envKey) THEN envKey ELSE FallbackKey]

SportsDataIoService(envKey) == [threw |-> FALSE, apiKey |-> envKey]

\* part_003: the constructor warns, each method checks the key before it fetches
OddsApiServiceWarn(envKey) == [threw |-> FALSE, apiKey |-> envKey]

\* oddsApi.ts fetchJson: one request, no retry
fetchJson(answers) ==
  LET res == answers[1]
  IN IF ~HttpOk(res.status)
     THEN [threw |-> TRUE, status |-> res.status, json |-> <<>>, sent |-> 1]
     ELSE [threw |-> FALSE, status |-> res.status, json |-> res.body, sent |-> 1]

Adapters == {"SportsDataIoService", "SportsDataIoServiceEarlier", "OddsApiService",
             "OddsApiServiceWarn"}

Construct(adapter, envKey) ==
  CASE adapter = "SportsDataIoService"        -> SportsDataIoService(envKey)
    [] adapter = "SportsDataIoServiceEarlier" -> SportsDataIoServiceEarlier(envKey)
    [] adapter = "OddsApiService"             -> assertApiKey(envKey)
    [] OTHER                                  -> OddsApiServiceWarn(envKey)

\* the first call on a service: the key each upstream request carried
FirstCall(adapter, envKey, answers) ==
  Bind(Construct(adapter, envKey), LAMBDA svc :
    IF svc.threw
    THEN [constructed |-> FALSE, threw |-> TRUE, sent |-> 0, key |-> <<>>]
    ELSE IF adapter = "OddsApiServiceWarn" /\ ~Truthy(svc.apiKey)
    THEN [constructed |-> TRUE, threw |-> TRUE, sent |-> 0, key |-> <<>>]
    ELSE Bind(IF adapter = "OddsApiServiceWarn" THEN fetchJsonWith429Retry(answers, 1)
              ELSE IF adapter = "OddsApiService" THEN fetchJson(answers)
                   ELSE fetchWithRetry(answers, 1), LAMBDA r :
           [constructed |-> TRUE, threw |-> r.threw, sent |-> r.sent, key |-> svc.apiKey]))

ConstructAdapter ==
  /\ lastSync.route = "none"
  /\ \E adapter \in Adapters, envKey \in EnvKeys, answers \in StatusAnswers :
        \E r \in {FirstCall(adapter, envKey, answers)} :
           AdapterCall("construct", [adapter |-> adapter, envKey |-> envKey],
                       IF r.threw THEN 500 ELSE 200, r)

\* ESPN answers: links that answer, links that fail, objects that carry
\* their fields beside the link
Ok(json)     == [outcome |-> "ok", json |-> json]
Failed(kind) == [outcome |-> kind, json |-> <<>>]
FailKinds    == {"network", "status", "parse"}
Link(ref, resp, data) == [ref |-> ref, resp |-> resp, data |-> data]

EspnOutcomeData(homeAway, price) ==
  [homeAway |-> homeAway, name |-> <<>>, price |-> price, point |-> <<>>]
EspnMarketData(type, outcomes) == [type |-> type, outcomes |-> outcomes]
EspnProvider(name, home, total, markets) ==
  [name |-> name, updated |-> KickOff, moneyline |-> [home |-> home, away |-> <<>>],
   spread |-> [home |-> <<>>, away |-> <<>>, homeOdds |-> <<>>, awayOdds |-> <<>>],
   total |-> total, markets |-> markets]

NoOutcome  == EspnOutcomeData("", <<>>)
NoMarket   == EspnMarketData(<<>>, <<>>)
NoProvider == EspnProvider(<<>>, <<>>, <<>>, <<>>)
DeepBook   == <<"D", "e", "e", "p">>
\* what a second hop would fetch
Deep       == Ok(Link(FALSE, Failed("network"), EspnProvider(DeepBook, <<-150>>, <<>>, <<>>)))

OutcomeLinks ==
  {Link(FALSE, Failed("network"), EspnOutcomeData("home", <<-150>>)),
   Link(TRUE, Ok(Link(FALSE, Failed("network"), EspnOutcomeData("away", <<130>>))), NoOutcome)}
    \cup {Link(TRUE, Failed(k), NoOutcome) : k \in FailKinds}

MarketLinks ==
  {Link(FALSE, Failed("network"), EspnMarketData(<<"M", "o", "n", "e", "y", "l", "i", "n", "e">>, <<o>>)) :
     o \in OutcomeLinks}
    \cup {Link(TRUE, Failed("status"), NoMarket)}
    \cup {Link(TRUE, Ok(Link(FALSE, Failed("network"),
                             EspnMarketData(<<"m", "l">>, <<o>>))), NoMarket) :
            o \in {x \in OutcomeLinks : ~x.ref}}

ItemLinks ==
  {Link(FALSE, Failed("network"), EspnProvider(DraftKingsTitle, <<-150>>, <<>>, <<>>)),
   Link(TRUE, Ok(Link(TRUE, Deep, EspnProvider(<<"F", "D">>, <<-145>>, <<475>>, <<>>))),
        NoProvider)}
    \cup {Link(TRUE, Failed(k), NoProvider) : k \in FailKinds}
    \cup {Link(TRUE, Failed(k), EspnProvider(DraftKingsTitle, <<>>, <<475>>, <<>>)) :
            k \in FailKinds}
    \cup {Link(FALSE, Failed("network"), EspnProvider(DraftKingsTitle, <<>>, <<>>, <<m>>)) :
            m \in MarketLinks}

ItemLists ==
  {<<>>} \cup {<<a>> : a \in ItemLinks} \cup {<<a, b>> : a \in ItemLinks, b \in ItemLinks}

ScoreboardEvent(id, compId, lookup, oddsRoot) ==
  [id |-> id, compId |-> compId, lookup |-> lookup, odds |-> oddsRoot,
   homeTeam |-> KansasCityChiefs, awayTeam |-> BuffaloBills, date |-> KickOff]

Lookups ==
  {Failed("network"), Ok([compId |-> <<"c", "1">>, compRef |-> FALSE, comp |-> Failed("network")]),
   Ok([compId |-> <<>>, compRef |-> TRUE, comp |-> Failed("status")]),
   Ok([compId |-> <<>>, compRef |-> TRUE, comp |-> Ok(<<"c", "1">>)])}

FirstEvents ==
  {ScoreboardEvent(<<"e1">>, <<"c", "1">>, Failed("network"), Ok(items)) : items \in ItemLists}
    \cup {ScoreboardEvent(<<"e1">>, <<>>, l, Ok(<<>>)) : l \in Lookups}
    \cup {ScoreboardEvent(<<"e1">>, <<"c", "1">>, Failed("network"), Failed(k)) : k \in FailKinds}
    \cup {ScoreboardEvent(<<>>, <<>>, Failed("network"), Ok(<<>>))}

SecondEvent ==
  ScoreboardEvent(<<"e2">>, <<"c", "2">>, Failed("network"),
                  Ok(<<Link(FALSE, Failed("network"),
                            EspnProvider(DraftKingsTitle, <<-150>>, <<>>, <<>>))>>))

Scoreboards ==
  {Failed(k) : k \in FailKinds} \cup {Ok(<<>>)}
    \cup {Ok(<<e>>) : e \in FirstEvents} \cup {Ok(<<e, SecondEvent>>) : e \in FirstEvents}

\* the bet types SportsGameOdds sends, "" for a node without one
BetTypes == {"", "h2h", "spreads", "totals", "player_props"}

SgoNodes ==
  [bookmaker : {<<>>, DraftKingsKey}, betType : BetTypes,
   outcomes : {[isArray |-> FALSE, list |-> <<>>],
               [isArray |-> TRUE, list |-> <<[name |-> OverName, price |-> <<-110>>,
                                              point |-> <<475>>]>>]},
   name : {<<>>, KansasCityChiefs}, price : {<<>>, <<-150>>}]

SgoOdds ==
  {<<>>} \cup {<<n>> : n \in SgoNodes}
    \cup {<<n, [n EXCEPT !.betType = "totals"]>> : n \in SgoNodes}

TransformSgoOdds ==
  /\ lastSync.route = "none"
  /\ \E nodes \in SgoOdds :
        \E r \in {transformOddsToBookmakers(nodes, <<>>)} :
           AdapterCall("transformOddsToBookmakers", nodes, 200, r)

NflOddsToday ==
  /\ lastSync.route = "none"
  /\ \E scoreboard \in Scoreboards :
        \E r \in {getNflOddsToday(scoreboard)} :
           AdapterCall("getNflOddsToday", scoreboard, IF r.threw THEN 500 ELSE 200, r)

AdapterNext ==
  FetchSportsDataIo \/ FetchSportsGameOdds \/ PagedOdds \/ PagedOddsDoWhile
    \/ ConstructAdapter \/ NflOddsToday \/ TransformSgoOdds

AdapterSpec == Init /\ [][AdapterNext]_vars

\* ESPN from the scoreboard to the tables: one event, one provider with its
\* own moneyline, spread and total, under two different team names and under
\* one placeholder name for both teams
Placeholder == <<"T", "B", "D">>

PathProviders ==
  {[EspnProvider(DraftKingsTitle, home, total, <<>>) EXCEPT
      !.moneyline.away = away, !.spread.home = sp[1], !.spread.away = sp[2]] :
     home \in {<<>>, <<-150>>}, away \in {<<>>, <<130>>}, total \in {<<>>, <<475>>},
     sp \in {<<<<>>, <<>>>>, <<<<0>>, <<0>>>>, <<<<-30>>, <<30>>>>, <<<<-30>>, <<>>>>}}

PathScoreboards ==
  {Ok(<<[ScoreboardEvent(<<"e1">>, <<"c", "1">>, Failed("network"),
                         Ok(<<Link(FALSE, Failed("network"), prov)>>))
           EXCEPT !.homeTeam = teams[1], !.awayTeam = teams[2]]>>) :
     prov \in PathProviders,
     teams \in {<<KansasCityChiefs, BuffaloBills>>, <<Placeholder, Placeholder>>}}

EspnPath ==
  /\ lastSync.route = "none"
  /\ UNCHANGED inFlight
  /\ \E scoreboard \in PathScoreboards, route \in {"espnSync", "syncBest"} :
        \E espn \in {[threw |-> FALSE, data |-> getNflOddsToday(scoreboard).out]} :
           \E out \in {IF route = "espnSync"
                       THEN EspnSyncHandler(DefaultEspnLimit, espn, NoFail)
                       ELSE SyncBestHandler("NFL", DefaultBestLimit, Serving(<<>>), espn,
                                            NoFail)} :
              Commit(route, scoreboard, out)

EspnPathNext == EspnPath

EspnPathSpec == Init /\ [][EspnPathNext]_vars

FlightNext == SyncTrigger \/ SyncComplete

FlightSpec == Init /\ [][FlightNext]_vars

Next == SyncOdds \/ SyncBest \/ EspnSync \/ SeedSportsData \/ OddsBest \/ SyncRowRejected

Spec == Init /\ [][Next]_vars

(***************************************************************************)
(* Properties.  lastSync and prev describe the request just handled: its   *)
(* route and input, the events it looped over, the tables before it.       *)
(***************************************************************************)

Range(seq) == {seq[i] : i \in DOMAIN seq}

\* every outcome of a list of events, with its event, bookmaker and market
Quotes(evs) ==
  UNION {UNION {UNION {{[ev |-> e, bm |-> b, mk |-> m, o |-> o] : o \in Range(m.outcomes)}
                       : m \in Range(b.markets)}
                : b \in Range(e.bookmakers)}
         : e \in Range(evs)}

OddsValue(r) == <<OddsKey(r), r.price, r.point>>

MissingTeam(ev) == ~Truthy(ev.home_team) \/ ~Truthy(ev.away_team)

BadTime(ev) == ~TimeTruthy(ev.commence_time) \/ isNaNTime(NewDate(ev.commence_time))

\* what each provider returned to the request just handled
SdioEvents(sport, limit, upstream) ==
  LET r == getOdds(sport, limit, upstream) IN IF r.threw THEN <<>> ELSE r.events

EspnEvents(espn) == IF espn.threw THEN <<>> ELSE transformEspnToDbFormat(espn.data)

\* C1: a sync route run twice in a row on the same provider answer leaves
\* the odds rows as the first run left them (same keys, prices and points,
\* no row more) and creates no line_movements row.
C1_SyncIdempotent ==
  (lastSync.repeat /\ lastSync.route \in SyncRoutes) =>
     /\ {OddsValue(r) : r \in odds} = {OddsValue(r) : r \in prev.odds}
     /\ Cardinality(odds) = Cardinality(prev.odds)
     /\ lineMovements = prev.lineMovements

C1_Witness ==
  /\ lastSync.repeat
  /\ lastSync.route \in SyncRoutes
  /\ response.status = 200
  /\ Cardinality(odds) >= 2
  /\ odds = prev.odds

\* C2: the odds table never holds two rows with the same (gameId,
\* bookmakerId, market, outcomeType); a request keeps every row it found
\* under its id and key, and a row written again carries the price and
\* point last ingested for its key.
C2_OneRowPerKey ==
  /\ \A r1, r2 \in odds : OddsKey(r1) = OddsKey(r2) => r1 = r2
  /\ \A p \in prev.odds : \E r \in odds : r.id = p.id /\ OddsKey(r) = OddsKey(p)
  /\ \A point \in {30, 35} :
       (/\ lastSync.route \in SyncRoutes \cup {"seed"}
        /\ lastSync.events = <<Event("g1", KansasCityChiefs, BuffaloBills, KickOff,
                                     SpreadAt(point))>>
        /\ oddsKeyIndex)
       => \E r \in odds :
            /\ OddsKey(r) = <<<<"g1">>, DraftKingsKey, "spreads", "home">>
            /\ r.price = <<-110>>
            /\ r.point = <<point>>

C2_Witness ==
  \E p \in prev.odds : \E r \in odds :
     /\ r.id = p.id
     /\ OddsKey(r) = OddsKey(p)
     /\ p.point = <<30>>
     /\ r.point = <<35>>
     /\ Cardinality(odds) = Cardinality(prev.odds)

\* C3: when a sync rewrites the point P1 of a stored odds row to a
\* different point P2, it creates exactly one line_movements row with
\* oldValue P1, newValue P2 and movement P2 - P1.
C3_LineMovementRecorded ==
  \A p \in prev.odds : \A r \in odds :
     (/\ lastSync.route \in SyncRoutes
      /\ r.id = p.id
      /\ p.point # <<>>
      /\ r.point # <<>>
      /\ r.point # p.point)
     => Cardinality({m \in lineMovements \ prev.lineMovements :
                       /\ m.gameId = r.gameId
                       /\ m.market = r.market
                       /\ m.oldValue = p.point
                       /\ m.newValue = r.point
                       /\ m.movement = <<r.point[1] - p.point[1]>>}) = 1

\* the provider a fallback route should report: the first, in the route's
\* preference order, that returned at least one event ("none" if none did)
FirstNonEmpty(order) ==
  IF order = <<>> THEN [source |-> "none", events |-> <<>>]
  ELSE LET hit == {i \in DOMAIN order : order[i].events # <<>>}
       IN IF hit = {} THEN [source |-> "none", events |-> <<>>]
          ELSE order[CHOOSE i \in hit : \A j \in hit : i <= j]

\* the providers of the request just handled, in preference order
Preference ==
  CASE lastSync.route = "syncBest" ->
         LET sdio == [source |-> "SportsDataIO",
                      events |-> SdioEvents(lastSync.input[1], DefaultBestLimit,
                                            lastSync.input[2])]
             espn == [source |-> "ESPN", events |-> EspnEvents(lastSync.input[3])]
         IN IF lastSync.input[1] = "NFL" THEN <<sdio, espn>> ELSE <<sdio>>
    [] lastSync.route = "best" ->
         LET sdio == [source |-> "SportsDataIO",
                      events |-> SdioEvents(lastSync.input[1], BestFetchLimit,
                                            lastSync.input[3])]
             espn == [source |-> "ESPN", events |-> EspnEvents(lastSync.input[4])]
         IN IF lastSync.input[2] THEN <<espn, sdio>> ELSE <<sdio, espn>>
    [] OTHER -> <<>>

\* C4: in /api/odds/sync-best and /api/odds/best, when some provider of
\* the preference order returned at least one event, the first such
\* provider is the reported source and its events are the data; providers
\* before it that failed or were empty are passed over.
C4_FallbackOrder ==
  (lastSync.route \in {"syncBest", "best"} /\ FirstNonEmpty(Preference).source # "none") =>
     /\ response.status = 200
     /\ response.body.source = FirstNonEmpty(Preference).source
     /\ lastSync.events =
          IF lastSync.route = "syncBest"
          THEN Slice(FirstNonEmpty(Preference).events, DefaultBestLimit)
          ELSE FirstNonEmpty(Preference).events

C4_Witness ==
  /\ lastSync.route = "syncBest"
  /\ Preference[1].events = <<>>
  /\ Preference[2].events # <<>>
  /\ response.status = 200
  /\ response.body.source = "ESPN"
  /\ games # {}

\* C5: when SportsDataIO answers 429 to the request and to both retries
\* and ESPN works, /api/odds/sync-best reports ESPN as source and its
\* result carries one error entry that names SportsDataIO.
C5_RateLimitedPrimaryReported ==
  (/\ lastSync.route = "syncBest"
   /\ lastSync.input[1] = "NFL"
   /\ \A attempt \in 1..3 : AnswerAt(lastSync.input[2].odds, attempt).status = 429
   /\ EspnEvents(lastSync.input[3]) # <<>>)
  => /\ response.status = 200
     /\ response.body.source = "ESPN"
     /\ "errors" \in DOMAIN response.body
     /\ Len(response.body.errors) = 1
     /\ response.body.errors[1].provider = "SportsDataIO"

\* C6: a fallback route answers "No odds sources available" exactly when
\* every provider configured for the sport failed or returned no event.
C6_NoDataIffAllEmpty ==
  lastSync.route \in {"syncBest", "best"} =>
     ((response.status = 503) <=> (FirstNonEmpty(Preference).source = "none"))

\* C7: every odds row a sync route writes comes from an outcome that the
\* classification rules (team name, exact or contained, or the literal
\* home / away; over / under for totals) give that row's type; an outcome
\* the rules do not classify, such as "KC" for "Kansas City Chiefs",
\* leaves no row.
C7_UnclassifiableDropped ==
  lastSync.route \in SyncRoutes =>
     \A r \in odds \ prev.odds :
        \E q \in Quotes(lastSync.events) :
           /\ q.ev.id = r.gameId
           /\ q.bm.key = r.bookmakerId
           /\ q.mk.key = r.market
           /\ ClassifySync(q.mk.key, q.o.name, q.ev) = r.outcomeType

\* C8: every odds row has outcomeType home, away, over or under.
C8_OutcomeTypeEnumerated ==
  \A r \in odds : r.outcomeType \in {"home", "away", "over", "under"}

C8_Witness ==
  /\ lastSync.route \in SyncRoutes \cup {"seed"}
  /\ \E q \in Quotes(lastSync.events) : q.mk.key \notin {"h2h", "spreads", "totals"}
  /\ \E r \in odds \ prev.odds : r.gameId = <<"g1">>
  /\ response.status = 200

\* C9: no game row has an invalid commenceTime, and a sync route writes no
\* game row for an event whose commence time is missing or unparseable.
C9_ValidCommenceTime ==
  /\ \A g \in games : ~isNaNTime(g.commenceTime)
  /\ lastSync.route \in SyncRoutes =>
       \A ev \in Range(lastSync.events) :
          BadTime(ev) => {g \in games : g.id = ev.id} = {g \in prev.games : g.id = ev.id}

\* the number of skipped events the response reports, <<>> if it reports none
SkippedReported ==
  IF "gamesSkipped" \in DOMAIN response.body THEN <<response.body.gamesSkipped>>
  ELSE IF "stats" \in DOMAIN response.body /\ "gamesSkipped" \in DOMAIN response.body.stats
       THEN <<response.body.stats.gamesSkipped>>
       ELSE <<>>

\* C10: a sync batch with an event that lacks a team answers 200, counts
\* the events that fail the validity checks as skipped, writes no game or
\* odds row for the event (no bookmaker row if it was the whole batch)
\* and writes the game row of every valid event of the batch.
C10_SkipNotCrash ==
  (/\ lastSync.route \in SyncRoutes
   /\ oddsKeyIndex
   /\ \E ev \in Range(lastSync.events) : MissingTeam(ev))
  => /\ response.status = 200
     /\ SkippedReported =
          <<Cardinality({i \in DOMAIN lastSync.events :
                           MissingTeam(lastSync.events[i]) \/ BadTime(lastSync.events[i])})>>
     /\ \A ev \in Range(lastSync.events) :
          MissingTeam(ev) =>
            /\ {g \in games : g.id = ev.id} = {g \in prev.games : g.id = ev.id}
            /\ {r \in odds : r.gameId = ev.id} = {r \in prev.odds : r.gameId = ev.id}
     /\ (\A ev \in Range(lastSync.events) : MissingTeam(ev)) => bookmakers = prev.bookmakers
     /\ \A ev \in Range(lastSync.events) :
          (~MissingTeam(ev) /\ ~BadTime(ev)) => \E g \in games : g.id = ev.id

\* C11: when the database rejects the write of one bookmaker or odds row
\* during a sync, the sync still answers 200 and every other game,
\* bookmaker and classified outcome of the batch has its row.
C11_RowFailureContinues ==
  (lastSync.route \in SyncRoutes /\ lastSync.fail \in RowFaults /\ oddsKeyIndex) =>
     /\ response.status = 200
     /\ \A ev \in Range(lastSync.events) : \E g \in games : g.id = ev.id
     /\ \A ev \in Range(lastSync.events) : \A bm \in Range(ev.bookmakers) :
          lastSync.fail # <<"bookmakers", bm.key>> => \E b \in bookmakers : b.id = bm.key
     /\ \A q \in Quotes(lastSync.events) :
          LET key == <<q.ev.id, q.bm.key, q.mk.key,
                       Classify(lastSync.route, q.mk.key, q.o.name, q.ev)>>
          IN (key[4] # "" /\ lastSync.fail # <<"odds", key>>
                /\ lastSync.fail # <<"bookmakers", q.bm.key>>)
             => \E r \in odds : OddsKey(r) = key

\* C12: every sync or fallback request is answered: with 200 and a body
\* of counts and the chosen source, or with 400 / 500 / 503 and a body
\* that reports the error.
C12_StructuredResponse ==
  lastSync.route \in SyncRoutes \cup {"best"} =>
     /\ response.route = lastSync.route
     /\ response.status \in {200, 400, 500, 503}
     /\ response.status = 200 =>
          CASE lastSync.route = "sync" ->
                 {"gamesUpdated", "oddsUpdated", "provider"} \subseteq DOMAIN response.body
            [] lastSync.route = "syncBest" ->
                 /\ {"source", "stats"} \subseteq DOMAIN response.body
                 /\ {"gamesUpdated", "booksUpdated", "oddsUpdated"}
                      \subseteq DOMAIN response.body.stats
            [] lastSync.route = "espnSync" ->
                 /\ "stats" \in DOMAIN response.body
                 /\ {"gamesUpdated", "booksUpdated", "oddsUpdated", "source"}
                      \subseteq DOMAIN response.body.stats
            [] lastSync.route = "best" ->
                 {"source", "count"} \subseteq DOMAIN response.body
     /\ response.status # 200 =>
          \/ "message" \in DOMAIN response.body
          \/ "error" \in DOMAIN response.body

C12_Witness ==
  /\ lastSync.route = "sync"
  /\ lastSync.fail \in RowFaults
  /\ oddsKeyIndex
  /\ response.status = 500
  /\ games # {}

\* C13: at most one sync cycle is in flight at any time.
C13_SingleFlight == Cardinality(inFlight) <= 1

\* the combined read just answered, and what each provider gave it
UnifiedDone == lastSync.route = "unified"
UnifiedEspnFailed == lastSync.input[1] # "NFL" \/ lastSync.input[3].threw
UnifiedEspnEvents ==
  IF UnifiedEspnFailed THEN <<>> ELSE transformEspnToDbFormat(lastSync.input[3].data)
UnifiedSdio == getOdds(lastSync.input[1], lastSync.input[4], lastSync.input[2])
UnifiedSdioEvents == IF UnifiedSdio.threw THEN <<>> ELSE UnifiedSdio.events
SameGame(a, b) == a.home_team = b.home_team /\ a.away_team = b.away_team

\* C14: the combined read answers 200 with one sources entry per provider,
\* "failed" exactly for the provider that rejected, and the events of a
\* provider that answered are in the combined list whatever the other did.
C14_SettleAll ==
  UnifiedDone =>
     /\ response.status = 200
     /\ Len(response.body.sources) = 2
     /\ response.body.sources[1].name = "ESPN"
     /\ response.body.sources[2].name = "SportsDataIO"
     /\ response.body.sources[1].status = (IF UnifiedEspnFailed THEN "failed" ELSE "success")
     /\ response.body.sources[2].status = (IF UnifiedSdio.threw THEN "failed" ELSE "success")
     /\ response.body.totalEvents <= lastSync.input[4] =>
          \A ev \in Range(UnifiedEspnEvents) \cup Range(UnifiedSdioEvents) :
             \E c \in Range(response.body.combined) : SameGame(c, ev)
     /\ (UnifiedEspnFailed /\ response.body.totalEvents <= lastSync.input[4]) =>
          \A ev \in Range(UnifiedSdioEvents) :
             \E c \in Range(response.body.combined) :
                SameGame(c, ev) /\ c.source = "SportsDataIO"

C14_Witness ==
  /\ UnifiedDone
  /\ response.body.sources[1].status = "failed"
  /\ response.body.sources[2].status = "success"
  /\ Len(response.body.combined) = 2

\* ESPN lists no game twice
EspnListsOnce ==
  \A i, j \in DOMAIN UnifiedEspnEvents :
     SameGame(UnifiedEspnEvents[i], UnifiedEspnEvents[j]) => i = j

\* C15: of a game both providers list, ESPN listing it once, the merged list
\* holds one event, the one with the most bookmakers; the ESPN event, seen
\* first, gives way only to a SportsDataIO event with strictly more bookmakers.
C15_RicherEventKept ==
  (UnifiedDone /\ EspnListsOnce) =>
    \A i \in 1..Len(lastSync.events) :
      LET m == lastSync.events[i]
      IN /\ \A j \in 1..Len(lastSync.events) : SameGame(lastSync.events[j], m) => j = i
         /\ \A x \in Range(UnifiedEspnEvents) \cup Range(UnifiedSdioEvents) :
              SameGame(x, m) => Len(x.bookmakers) <= Len(m.bookmakers)
         /\ \A e \in Range(UnifiedEspnEvents) :
              SameGame(e, m) =>
                 (m.source = "SportsDataIO" <=>
                    \E x \in Range(UnifiedSdioEvents) :
                       SameGame(x, m) /\ Len(e.bookmakers) < Len(x.bookmakers))

\* one book at ESPN against two at SportsDataIO, and one against one
C15_Witness ==
  /\ UnifiedDone
  /\ lastSync.input[3].data = <<EspnOneBook>>
  /\ lastSync.input[2] \in {Serving(<<TwoBooks>>), Serving(<<SdioOne>>)}
  /\ Len(lastSync.events) = 1
  /\ lastSync.events[1].source = "SportsDataIO" <=> lastSync.input[2] = Serving(<<TwoBooks>>)

\* C16: no two events of the merged list have home and away names that are
\* equal up to letter case.
C16_CaseInsensitiveMatch ==
  UnifiedDone =>
    \A i, j \in 1..Len(lastSync.events) :
       (/\ toLowerCase(lastSync.events[i].home_team) = toLowerCase(lastSync.events[j].home_team)
        /\ toLowerCase(lastSync.events[i].away_team) = toLowerCase(lastSync.events[j].away_team))
          => i = j

\* C17: a fetch sends at most 3 requests, sends another only after a 429,
\* and after a third 429 rejects with status 429.
C17_BoundedRetry ==
  lastSync.route \in {"fetchWithRetry", "fetchJsonWith429Retry"} =>
    LET answers == lastSync.input
        sent    == response.body.sent
        last    == AnswerAt(answers, sent)
    IN /\ sent \in 1..3
       /\ \A i \in 1..(sent - 1) : AnswerAt(answers, i).status = 429
       /\ response.status = last.status
       /\ response.body.threw <=> ~HttpOk(last.status)
       /\ last.status = 429 => (sent = 3 /\ response.body.threw /\ response.status = 429)

\* four answers of 429: the fourth is never asked for
C17_Witness ==
  /\ lastSync.route \in {"fetchWithRetry", "fetchJsonWith429Retry"}
  /\ Len(lastSync.input) = 4
  /\ \A i \in 1..4 : lastSync.input[i].status = 429
  /\ response.body.sent = 3
  /\ response.body.threw
  /\ response.status = 429

\* the events of the first n pages of a listing
RECURSIVE FirstPages(_, _)
FirstPages(pages, n) ==
  IF n = 0 THEN <<>> ELSE FirstPages(pages, n - 1) \o pageData(pages, n)

\* C18: getOdds sends at most maxPages requests, goes on only while a cursor
\* came and the item cap is not reached, and returns the pages it fetched.
C18_BoundedPagination ==
  lastSync.route \in {"sgoGetOdds", "sgoGetOddsDoWhile"} =>
    LET pages    == lastSync.input[1]
        cap      == lastSync.input[2] * lastSync.input[3]
        maxPages == lastSync.input[3]
        sent     == response.body.sent
    IN /\ sent <= maxPages
       /\ response.body.results = FirstPages(pages, sent)
       /\ \A i \in 1..(sent - 1) :
            AnswerAt(pages, i).next /\ Len(FirstPages(pages, i)) < cap

\* the stored quotes of the game and market asked for, and of one side
QuoteGroup(side) ==
  {r \in odds : /\ r.gameId = lastSync.input[1]
                /\ r.market = lastSync.input[2]
                /\ r.outcomeType = side}
\* the place of a row in the order the rows were seen in
SeenAt(row) == CHOOSE i \in 1..Len(lastSync.events) : lastSync.events[i] = row
SummaryOf(side) ==
  CASE side = "home"  -> response.body.bestHome
    [] side = "away"  -> response.body.bestAway
    [] side = "over"  -> response.body.bestOver
    [] side = "under" -> response.body.bestUnder

\* C19: for each side the summary holds a quote of the side's group, priced
\* at least as high as every quote of the group as a signed number, and the
\* first seen among those of that price; getBestOdds returns the group's
\* quotes highest price first.
C19_BestOddsPerOutcome ==
  /\ lastSync.route = "bestOddsSummary" =>
       \A side \in Sides :
          IF QuoteGroup(side) = {} THEN SummaryOf(side) = <<>>
          ELSE /\ SummaryOf(side) # <<>>
               /\ SummaryOf(side)[1] \in QuoteGroup(side)
               /\ \A r \in QuoteGroup(side) :
                    /\ PriceNum(SummaryOf(side)[1]) >= PriceNum(r)
                    /\ PriceNum(r) = PriceNum(SummaryOf(side)[1])
                         => SeenAt(SummaryOf(side)[1]) <= SeenAt(r)
  /\ lastSync.route = "bestOdds" =>
       /\ Range(response.body) = UNION {QuoteGroup(side) : side \in Sides}
       /\ \A side \in Sides : \A r \in QuoteGroup(side) :
            \E i \in 1..Len(response.body) :
               /\ response.body[i].outcomeType = side
               /\ PriceNum(response.body[i]) >= PriceNum(r)
               /\ \A j \in 1..(i - 1) : response.body[j].outcomeType # side

\* +150, -105 and -110 on the home side, the -110 seen first: +150 is best
C19_Witness ==
  /\ lastSync.route = "bestOddsSummary"
  /\ lastSync.input[2] = "h2h"
  /\ {PriceNum(r) : r \in QuoteGroup("home")} = {-110, -105, 150}
  /\ PriceNum(lastSync.events[1]) = -110
  /\ PriceNum(response.body.bestHome[1]) = 150
  /\ response.body.bestAway # <<>>

\* the rows the claim selects: in the trailing window (24 hours when no
\* hours are given), of a movement of at least minMovement (1.0 when none)
ClaimedHours == IF lastSync.input[1] = <<>> THEN 24 ELSE lastSync.input[1][1]
ClaimedMinMovement == IF lastSync.input[2] = <<>> THEN 10 ELSE lastSync.input[2][1]
ClaimedMovers ==
  {r \in lineMovements : /\ r.timestamp >= MoversNow - ClaimedHours
                         /\ r.movement # <<>>
                         /\ Abs(r.movement[1]) >= ClaimedMinMovement}

\* C20: the answer lists the claimed rows, most recent first, each with its
\* game, the 10 most recent when there are more, and is empty when none match.
C20_BigMovers ==
  lastSync.route \in {"bigMovers", "getBigMovers"} =>
    LET out == response.body
    IN /\ response.status = 200
       /\ Len(out) = (IF Cardinality(ClaimedMovers) < 10 THEN Cardinality(ClaimedMovers) ELSE 10)
       /\ \A i \in 1..Len(out) :
            /\ \E r \in ClaimedMovers : r.id = out[i].id /\ r.timestamp = out[i].timestamp
            /\ out[i].game \in games /\ out[i].game.id = out[i].gameId
            /\ \A j \in 1..Len(out) : i < j => out[i].timestamp > out[j].timestamp
            /\ \A r \in ClaimedMovers :
                 r.timestamp > out[i].timestamp => \E j \in 1..Len(out) : out[j].id = r.id

\* the same, for the requests that go through the route
C20_RouteBigMovers == lastSync.route = "bigMovers" => C20_BigMovers

\* the PregameOdds entries a stored row was made of, and the American odds
\* each gives for the row's market and side
RawOddsOf(row) ==
  {odd \in Range(lastSync.input[1].PregameOdds) : odd.Sportsbook = row.bookmakerId}
AmericanOf(odd, market, side) ==
  CASE market = "h2h"     /\ side = "home"  -> odd.HomeMoneyLine
    [] market = "h2h"     /\ side = "away"  -> odd.AwayMoneyLine
    [] market = "spreads" /\ side = "home"  -> odd.HomePointSpreadPayout
    [] market = "spreads" /\ side = "away"  -> odd.AwayPointSpreadPayout
    [] market = "totals"  /\ side = "over"  -> odd.OverPayout
    [] market = "totals"  /\ side = "under" -> odd.UnderPayout
    [] OTHER -> Undef
RawDone == lastSync.route \in {"sync", "syncBest"}

\* C21: the price of every row a sync stores is the American odds of the
\* payload for that sportsbook, market and side (a whole number, so a
\* multiple of 100 in hundredths).
C21_StoredPriceAmerican ==
  RawDone =>
    \A r \in odds :
       LET american == {a \in {AmericanOf(odd, r.market, r.outcomeType) :
                                 odd \in RawOddsOf(r)} : a.k = "num"}
       IN american # {} => r.price \in {<<100 * a.v>> : a \in american}

\* the rows the sync route writes for one event: its game, its bookmakers
\* and its classified outcomes with their prices
EventWritten(ev) ==
  /\ \E g \in games : g.id = ev.id /\ g.homeTeam = ev.home_team /\ g.awayTeam = ev.away_team
  /\ \A bm \in Range(ev.bookmakers) : \E b \in bookmakers : b.id = bm.key
  /\ \A q \in Quotes(<<ev>>) :
       Classify("sync", q.mk.key, q.o.name, ev) # "" =>
          \E r \in odds :
             /\ OddsKey(r) = <<ev.id, q.bm.key, q.mk.key, Classify("sync", q.mk.key, q.o.name, ev)>>
             /\ r.price = q.o.price

\* C22: when POST /api/odds/sync fails partway, no row that was in the store
\* is gone, the game written before a rejected bookmaker or odds row is in
\* the store, and every row of the events before a rejected game is in the
\* store with the value the run gave it.
C22_NoRollback ==
  (lastSync.route = "sync" /\ response.status = 500 /\ lastSync.events # <<>>) =>
     /\ \A g \in prev.games : \E h \in games : h.id = g.id
     /\ \A b \in prev.bookmakers : \E c \in bookmakers : c.id = b.id
     /\ \A r \in prev.odds : \E t \in odds : OddsKey(t) = OddsKey(r)
     /\ (~MissingTeam(lastSync.events[1]) /\ ~BadTime(lastSync.events[1])) =>
           \E g \in games : g.id = lastSync.events[1].id
     /\ (lastSync.fail = <<"odds", <<<<"g1">>, DraftKingsKey, "h2h", "home">>>>
           \/ (/\ ~oddsKeyIndex
               /\ lastSync.events = FaultBatch
               /\ lastSync.fail # <<"bookmakers", DraftKingsKey>>)) =>
           \E b \in bookmakers : b.id = DraftKingsKey
     /\ (lastSync.fail = LateFault /\ oddsKeyIndex) => EventWritten(lastSync.events[1])

\* the later game is rejected: the three odds rows of the first game stay
C22_Witness ==
  /\ lastSync.route = "sync"
  /\ response.status = 500
  /\ lastSync.fail = LateFault
  /\ Cardinality(odds) = 3
  /\ ~ \E g \in games : g.id = <<"g3">>

\* a stored decimal is null or a finite number
FiniteOrNull(v) == Len(v) <= 1

\* C23: the price and the point of every odds row a sync has written are a
\* finite number or null.
C23_NoGarbageNumerics ==
  RawDone => \A r \in odds : FiniteOrNull(r.price) /\ FiniteOrNull(r.point)

\* C24: an adapter whose key is absent from the environment fails at
\* construction and sends no upstream request, neither without a key nor with
\* a substituted one.
C24_CredentialFailFast ==
  (lastSync.route = "construct" /\ ~Truthy(lastSync.input.envKey))
     => /\ ~response.body.constructed
        /\ response.body.threw
        /\ response.body.sent = 0

\* a link whose request failed
Failing(obj) == obj.ref /\ obj.resp.outcome # "ok"

Surviving(links) == SelectSeq(links, LAMBDA l : ~Failing(l))

\* the fields in use once the link is expanded
Expanded(obj) == IF obj.ref /\ ~Failing(obj) THEN obj.resp.json ELSE obj

\* the markets and the providers without the links whose request failed
SurvivingMarket(m) ==
  LET x == Expanded(m)
  IN [ref |-> FALSE, resp |-> x.resp,
      data |-> [x.data EXCEPT !.outcomes = Surviving(@)]]

SurvivingItem(item) ==
  LET x == Expanded(item)
      markets == Surviving(x.data.markets)
  IN [ref |-> FALSE, resp |-> x.resp,
      data |-> [x.data EXCEPT
                  !.markets = [i \in 1..Len(markets) |-> SurvivingMarket(markets[i])]]]

SurvivingItems(items) ==
  LET s == Surviving(items) IN [i \in 1..Len(s) |-> SurvivingItem(s[i])]

NflDone == lastSync.route = "getNflOddsToday"

ScoreboardOf(input) == IF input.outcome = "ok" THEN input.json ELSE <<>>

\* C25: no failing request makes getNflOddsToday reject; every event with an
\* id is in the result, its quotes being those of the providers, markets and
\* outcomes whose requests did not fail; no link is followed a second hop.
C25_HopFailuresTolerated ==
  NflDone =>
    /\ ~response.body.threw
    /\ \A ev \in Range(ScoreboardOf(lastSync.input)) :
          Truthy(ev.id) =>
            \E g \in Range(response.body.out) :
               /\ g.eventId = ev.id
               /\ g.quotes =
                    ItemQuotes(IF ev.odds.outcome = "ok" THEN SurvivingItems(ev.odds.json)
                               ELSE <<>>, ev.homeTeam, ev.awayTeam).quotes
               /\ \A q \in Range(g.quotes) : q.book # DeepBook

MarketKeys == {"h2h", "spreads", "totals"}

KeysOf(books) == {m.key : m \in UNION {Range(b.markets) : b \in Range(books)}}

\* C26: every market an adapter emits has key h2h, spreads or totals, and
\* that key is the type the upstream market had: a market of another type or
\* of none is dropped.
C26_KnownMarketKeys ==
  /\ lastSync.route = "transformOddsToBookmakers"
       => /\ KeysOf(response.body) \subseteq MarketKeys
          /\ KeysOf(response.body) \subseteq {n.betType : n \in Range(lastSync.input)}
  /\ NflDone => \A ev \in Range(transformEspnToDbFormat(response.body.out)) :
                    KeysOf(ev.bookmakers) \subseteq MarketKeys

\* the events /api/odds/sync writes a game for, and the outcomes it writes
\* an odds row for, by their positions in the provider's answer
GameUpserts(evs) == {i \in DOMAIN evs : ~MissingTeam(evs[i]) /\ ~BadTime(evs[i])}

OddsUpserts(evs) ==
  {x \in UNION {UNION {UNION {{<<i, j, k, l>> :
                                 l \in DOMAIN evs[i].bookmakers[j].markets[k].outcomes}
                              : k \in DOMAIN evs[i].bookmakers[j].markets}
                       : j \in DOMAIN evs[i].bookmakers}
                : i \in GameUpserts(evs)} :
     LET ev == evs[x[1]]
         bm == ev.bookmakers[x[2]]
         mk == bm.markets[x[3]]
     IN /\ ~isNaNTime(BookLastUpdate("sync", bm))
        /\ ClassifySync(mk.key, mk.outcomes[x[4]].name, ev) # ""}

SyncAnswered == lastSync.route = "sync" /\ response.status = 200

\* C27: on a successful /api/odds/sync, gamesUpdated + gamesSkipped is the
\* number of events the provider returned, gamesUpdated the number of game
\* upserts and oddsUpdated the number of odds upserts.
C27_CounterConservation ==
  SyncAnswered =>
    /\ response.body.gamesUpdated + response.body.gamesSkipped = Len(lastSync.events)
    /\ response.body.gamesUpdated = Cardinality(GameUpserts(lastSync.events))
    /\ response.body.oddsUpdated = Cardinality(OddsUpserts(lastSync.events))

C27_Witness ==
  /\ SyncAnswered
  /\ response.body.gamesSkipped >= 1
  /\ response.body.gamesUpdated >= 1
  /\ response.body.oddsUpdated >= 2

\* the quotes getNflOddsToday made of the scoreboard just synced
PathGames == getNflOddsToday(lastSync.input).out

PathDone ==
  /\ lastSync.route \in {"espnSync", "syncBest"}
  /\ response.status = 200
  /\ oddsKeyIndex

\* the side a quote stands for
SideOf(q) ==
  IF q.market = "totals" THEN (IF q.team = "home" THEN "over" ELSE "under") ELSE q.team

\* the stored rows of a quote's game, bookmaker and market
RowsOf(g, q) ==
  {r \in odds : /\ r.gameId = <<"espn_">> \o g.eventId
                /\ r.bookmakerId = replaceBlanks(toLowerCase(q.book))
                /\ r.market = (IF q.market = "moneyline" THEN "h2h" ELSE q.market)}

\* C28: every quote of getNflOddsToday is stored under its own side: home or
\* away for moneyline and spreads, over for a totals quote of team home,
\* under for one of team away, whatever the two team names are.
C28_SideRoundTrip ==
  (PathDone /\ lastSync.route = "espnSync") =>
    \A g \in Range(PathGames) : \A q \in Range(g.quotes) :
       \E r \in RowsOf(g, q) : r.outcomeType = SideOf(q)

\* C29: the point stored for a quote of getNflOddsToday is the quote's point,
\* 0 included, and null for a quote without a point.
C29_PointPreserved ==
  (PathDone /\ \A g \in Range(PathGames) : g.homeTeam # g.awayTeam) =>
    \A g \in Range(PathGames) : \A q \in Range(g.quotes) :
       \A r \in RowsOf(g, q) : r.outcomeType = SideOf(q) => r.point = q.point

\* C30: the combined list of /api/odds/unified never holds two events with
\* the same home team and the same away team.
C30_NoDuplicateGames ==
  lastSync.route = "unified" =>
    \A i, j \in DOMAIN response.body.combined :
       LET a == response.body.combined[i]
           b == response.body.combined[j]
       IN (a.home_team = b.home_team /\ a.away_team = b.away_team) => i = j

====
